---- MODULE Spec2Model ----
(***************************************************************************)
(* Identity correlation and credential lifecycle engine of On-Call-Health. *)
(*                                                                         *)
(* Part 1: ManualMappingService.create_mapping ("assign") over the         *)
(*         UserMapping and UserCorrelation tables.                         *)
(* Part 2: LinearMappingService.get_smart_linear_data, the freshness and   *)
(*         retry policy over the IntegrationMapping table.                 *)
(* Part 3: needs_refresh / _get_valid_token over a LinearIntegration row.  *)
(* Part 4: the OAuth flow with PKCE: connect_linear, _process_callback,    *)
(*         get_linear_status, disconnect_linear over linear_integrations.  *)
(* Part 5: LinearIntegrationOAuth.get_authorization_url.                   *)
(* Part 6: EnhancedLinearMatcher.                                          *)
(* Part 7: the pagination loops over get_issues and get_users.             *)
(* Part 8: the Linear contribution score and the headroom combination.     *)
(* Part 9: the day-scoped cache of on-call emails.                         *)
(* Part 10: the lifecycle of the mappings: auto-map, unmap, sync-users and *)
(*         disconnect.                                                     *)
(* Part 11: the workload preview of test_linear_integration.               *)
(***************************************************************************)
EXTENDS Integers, Sequences, FiniteSets, TLC

\* SQL NULL / Python None for string-valued columns.
None == "None"
\* NULL in an organization_id column
NoOrganization == 0

----------------------------------------------------------------------------
(* Part 1: bounded input sets of create_mapping                             *)

Users == {1, 2}
SourcePlatforms == {"rootly"}
SourceIds == {"x@co.com", "y@co.com"}
TargetPlatforms == {"linear", "slack"}
TargetIds == {"ext-1", "ext-2"}
\* concurrent request handlers, each with its own database session
Procs == {"r1", "r2"}
\* the authenticated user a handler serves (user_id = current_user.id)
CurrentUser(p) == IF p = "r1" THEN 1 ELSE 2
\* create_mapping calls issued in one behaviour
MaxCalls == 3

VARIABLES
    userMappings,       \* committed rows of table user_mappings
    userCorrelations,   \* committed rows of table user_correlations
    nextMappingId,      \* autoincrement of user_mappings.id
    nextCorrelationId,  \* autoincrement of user_correlations.id
    frame,              \* per request: position in create_mapping and its locals
    before,             \* the call in flight and the committed tables when it began
    lastReturned,       \* the handler whose create_mapping returned last
    calls               \* create_mapping calls issued so far

mapVars == <<userMappings, userCorrelations, nextMappingId, nextCorrelationId,
             frame, before, lastReturned, calls>>

VARIABLES
    integrationMappings, \* rows of table integration_mappings
    utcnow,              \* datetime.utcnow(), in seconds
    smart                \* the get_smart_linear_data call that has just returned

freshVars == <<integrationMappings, utcnow, smart>>

VARIABLES
    integration,   \* the user's row of table linear_integrations
    clock,         \* datetime.now(timezone.utc), in minutes
    tokenFrame,    \* per request: position in _get_valid_token and its locals
    refreshCalls,  \* calls made to the provider's refresh endpoint
    provider       \* the provider: the refresh token it issued last

tokenVars == <<integration, clock, tokenFrame, refreshCalls, provider>>

VARIABLES
    linearIntegrations,  \* committed rows of table linear_integrations
    nextIntegrationId,   \* autoincrement of linear_integrations.id
    workspaceMappings,   \* committed rows of table linear_workspace_mappings
    authFrame,           \* per request: position in the OAuth handler and its locals
    grants,              \* the provider: the authorization codes it has issued
    exchanged,           \* the provider: the code exchanges it has accepted
    pkceIssued,          \* PKCE pairs generated so far
    secretChanged,       \* JWT_SECRET_KEY differs from the one the rows were stored under
    authCalls            \* OAuth handler calls issued so far

authVars == <<linearIntegrations, nextIntegrationId, workspaceMappings, authFrame,
              grants, exchanged, pkceIssued, secretChanged, authCalls>>

VARIABLES
    oauth,     \* the LinearIntegrationOAuth object: client_id and redirect_uri
    authUrl    \* the last get_authorization_url call and the URL it returned

urlVars == <<oauth, authUrl>>

VARIABLES
    matched    \* the last matcher call and its outcome

matchVars == <<matched>>

VARIABLES
    pager      \* the request that pages through issues or users, and its locals

pageVars == <<pager>>

VARIABLES
    scoring    \* the last score computation and its result

scoreVars == <<scoring>>

VARIABLES
    redis,       \* the keys of the cache, each with its value and its expiry
    cacheNow,    \* datetime.utcnow(), in ticks
    cacheRead    \* the call of the cache in progress, or the last one and its result

cacheVars == <<redis, cacheNow, cacheRead>>

VARIABLES
    preview    \* the issues fetched by test_linear_integration and its workload preview

previewVars == <<preview>>

\* the parts with no table in common with the others
laterVars == <<pageVars, scoreVars, cacheVars, previewVars>>

vars == <<mapVars, freshVars, tokenVars, authVars, urlVars, matchVars, laterVars>>

\* what the operations of one part leave alone
notMapVars == <<freshVars, tokenVars, authVars, urlVars, matchVars, laterVars>>
notFreshVars == <<mapVars, tokenVars, authVars, urlVars, matchVars, laterVars>>
notTokenVars == <<mapVars, freshVars, authVars, urlVars, matchVars, laterVars>>
\* _process_callback also writes user_correlations
notAuthVars == <<userMappings, nextMappingId, frame, before, lastReturned, calls,
                 freshVars, tokenVars, urlVars, matchVars, laterVars>>
notUrlVars == <<mapVars, freshVars, tokenVars, authVars, matchVars, laterVars>>
notMatchVars == <<mapVars, freshVars, tokenVars, authVars, urlVars, laterVars>>
notPageVars == <<mapVars, freshVars, tokenVars, authVars, urlVars, matchVars,
                 scoreVars, cacheVars, previewVars>>
notScoreVars == <<mapVars, freshVars, tokenVars, authVars, urlVars, matchVars,
                  pageVars, cacheVars, previewVars>>
notCacheVars == <<mapVars, freshVars, tokenVars, authVars, urlVars, matchVars,
                  pageVars, scoreVars, previewVars>>
notPreviewVars == <<mapVars, freshVars, tokenVars, authVars, urlVars, matchVars,
                    pageVars, scoreVars, cacheVars>>

IdleFrame(st) ==
    [pc |-> "idle", status |-> st,
     user_id |-> 0, source_platform |-> None, source_identifier |-> None,
     target_platform |-> None, target_identifier |-> None,
     conflicting_mappings |-> {}, conflicting_correlations |-> {},
     existing |-> {}, correlation |-> {}]

Ids(rows) == {r.id : r \in rows}

\* the persisted (committed) state of the two tables
Committed == [mappings |-> userMappings, correlations |-> userCorrelations]

\* a conflicting-rows query that forgets the other-user filter
ConflictingMappingsOwnRows(current_user_id, linear_user_id) ==
    {m \in userMappings :
        /\ m.user_id = current_user_id
        /\ m.target_platform = "linear"
        /\ m.target_identifier = linear_user_id}

\* remove_linear_from_all_other_users: UserMapping rows of OTHER users that hold
\* the Linear user id
ConflictingMappings(current_user_id, linear_user_id) ==
    {m \in userMappings :
        /\ m.user_id # current_user_id
        /\ m.target_platform = "linear"
        /\ m.target_identifier = linear_user_id}

\* remove_linear_from_all_other_users: UserCorrelation rows of OTHER users that
\* hold the Linear user id
ConflictingCorrelations(current_user_id, linear_user_id) ==
    {c \in userCorrelations :
        /\ c.user_id # current_user_id
        /\ c.linear_user_id = linear_user_id}

\* get_mapping: the rows of THIS user for (source platform, source id, target platform)
get_mapping(user_id, source_platform, source_identifier, target_platform) ==
    {m \in userMappings :
        /\ m.user_id = user_id
        /\ m.source_platform = source_platform
        /\ m.source_identifier = source_identifier
        /\ m.target_platform = target_platform}

\* .first() of a query without ORDER BY: any one of the matching rows, or none
First(rows) == IF rows = {} THEN {{}} ELSE {{r} : r \in rows}

\* the platform-specific column of a UserCorrelation row
PlatformField(correlation, target_platform) ==
    IF target_platform = "linear" THEN correlation.linear_user_id
    ELSE correlation.slack_user_id

SetPlatformField(correlation, target_platform, target_identifier) ==
    IF target_platform = "linear"
    THEN [correlation EXCEPT !.linear_user_id = target_identifier]
    ELSE [correlation EXCEPT !.slack_user_id = target_identifier]

----------------------------------------------------------------------------
(* create_mapping, one step per query and per commit                        *)

\* entry of create_mapping: dispatch on the target platform
Begin(p, user_id, source_platform, source_identifier, target_platform, target_identifier) ==
    /\ frame[p].pc = "idle"
    /\ calls < MaxCalls
    /\ calls' = calls + 1
    /\ frame' = [frame EXCEPT ![p] =
          [IdleFrame("running") EXCEPT
              !.pc = IF target_platform = "linear" THEN "evict_mappings" ELSE "get_mapping",
              !.user_id = user_id,
              !.source_platform = source_platform,
              !.source_identifier = source_identifier,
              !.target_platform = target_platform,
              !.target_identifier = target_identifier]]
    /\ lastReturned' = IF lastReturned = p THEN None ELSE lastReturned
    /\ UNCHANGED <<userMappings, userCorrelations, nextMappingId, nextCorrelationId>>

\* a request while other requests may be in flight
BeginConcurrent(p) ==
    /\ \E sp \in SourcePlatforms, sid \in SourceIds,
          tp \in TargetPlatforms, tid \in TargetIds :
          Begin(p, CurrentUser(p), sp, sid, tp, tid)
    /\ UNCHANGED before
    /\ UNCHANGED notMapVars

\* a request issued when no other request is in flight
BeginSequential(p) ==
    /\ \A q \in Procs : frame[q].pc = "idle"
    /\ \E sp \in SourcePlatforms, sid \in SourceIds,
          tp \in TargetPlatforms, tid \in TargetIds :
          Begin(p, CurrentUser(p), sp, sid, tp, tid)
    /\ before' = [by |-> p, mappings |-> userMappings, correlations |-> userCorrelations]
    /\ UNCHANGED notMapVars

\* remove_linear_from_all_other_users, step 1: query the conflicting UserMapping rows
QueryConflictingMappings(p) ==
    /\ frame[p].pc = "evict_mappings"
    /\ frame' = [frame EXCEPT
          ![p].conflicting_mappings =
              Ids(ConflictingMappings(frame[p].user_id, frame[p].target_identifier)),
          ![p].pc = "evict_correlations"]
    /\ UNCHANGED <<userMappings, userCorrelations, nextMappingId, nextCorrelationId,
                   before, lastReturned, calls>>
    /\ UNCHANGED notMapVars

\* remove_linear_from_all_other_users, step 2: query the conflicting UserCorrelation rows
QueryConflictingCorrelations(p) ==
    /\ frame[p].pc = "evict_correlations"
    /\ frame' = [frame EXCEPT
          ![p].conflicting_correlations =
              Ids(ConflictingCorrelations(frame[p].user_id, frame[p].target_identifier)),
          ![p].pc = "evict_commit"]
    /\ UNCHANGED <<userMappings, userCorrelations, nextMappingId, nextCorrelationId,
                   before, lastReturned, calls>>
    /\ UNCHANGED notMapVars

\* remove_linear_from_all_other_users: delete / clear the rows found and commit
\* "immediately" when removed_count > 0
CommitRemovals(p) ==
    /\ frame[p].pc = "evict_commit"
    /\ LET removed_count == Cardinality(frame[p].conflicting_mappings)
                            + Cardinality(frame[p].conflicting_correlations)
       IN  IF removed_count > 0
           THEN /\ userMappings' =
                      {m \in userMappings : m.id \notin frame[p].conflicting_mappings}
                /\ userCorrelations' =
                      {IF c.id \in frame[p].conflicting_correlations
                       THEN [c EXCEPT !.linear_user_id = None]
                       ELSE c : c \in userCorrelations}
           ELSE UNCHANGED <<userMappings, userCorrelations>>
    /\ frame' = [frame EXCEPT ![p].pc = "get_mapping"]
    /\ UNCHANGED <<nextMappingId, nextCorrelationId, before, lastReturned, calls>>
    /\ UNCHANGED notMapVars

\* create_mapping: existing = self.get_mapping(...)
GetMapping(p) ==
    /\ frame[p].pc = "get_mapping"
    /\ \E existing \in First(get_mapping(frame[p].user_id, frame[p].source_platform,
                                         frame[p].source_identifier,
                                         frame[p].target_platform)) :
          frame' = [frame EXCEPT ![p].existing = existing, ![p].pc = "commit_mapping"]
    /\ UNCHANGED <<userMappings, userCorrelations, nextMappingId, nextCorrelationId,
                   before, lastReturned, calls>>
    /\ UNCHANGED notMapVars

\* the exception leaves create_mapping; nothing pending is committed
Raised(p) == [frame EXCEPT ![p] = IdleFrame("raised")]

\* create_mapping: update the existing row, or add a new one, and commit
CommitMapping(p) ==
    /\ frame[p].pc = "commit_mapping"
    /\ IF frame[p].existing # {}
       THEN LET existing == CHOOSE e \in frame[p].existing : TRUE
            IN  IF existing.id \in Ids(userMappings)
                THEN \* UPDATE ... WHERE id = existing.id; only changed columns are written
                     /\ userMappings' =
                           {IF m.id = existing.id
                               /\ existing.target_identifier # frame[p].target_identifier
                            THEN [m EXCEPT !.target_identifier = frame[p].target_identifier]
                            ELSE m : m \in userMappings}
                     /\ frame' = [frame EXCEPT ![p].pc = "sync_query"]
                     /\ UNCHANGED nextMappingId
                ELSE \* the row was deleted by another session: the UPDATE matches no row
                     /\ frame' = Raised(p)
                     /\ UNCHANGED <<userMappings, nextMappingId>>
       ELSE /\ userMappings' = userMappings \cup
                  {[id |-> nextMappingId,
                    user_id |-> frame[p].user_id,
                    source_platform |-> frame[p].source_platform,
                    source_identifier |-> frame[p].source_identifier,
                    target_platform |-> frame[p].target_platform,
                    target_identifier |-> frame[p].target_identifier]}
            /\ nextMappingId' = nextMappingId + 1
            /\ frame' = [frame EXCEPT ![p].pc = "sync_query"]
    /\ UNCHANGED <<userCorrelations, nextCorrelationId, before, lastReturned, calls>>
    /\ UNCHANGED notMapVars

\* _sync_mapping_to_correlation: find the UserCorrelation of (user_id, email)
SyncQuery(p) ==
    /\ frame[p].pc = "sync_query"
    /\ \E correlation \in First({c \in userCorrelations :
                                    /\ c.user_id = frame[p].user_id
                                    /\ c.email = frame[p].source_identifier}) :
          frame' = [frame EXCEPT ![p].correlation = correlation, ![p].pc = "sync_commit"]
    /\ UNCHANGED <<userMappings, userCorrelations, nextMappingId, nextCorrelationId,
                   before, lastReturned, calls>>
    /\ UNCHANGED notMapVars

\* _sync_mapping_to_correlation: set the platform field (on a new row if none was
\* found), commit, and return from create_mapping
SyncCommit(p) ==
    /\ frame[p].pc = "sync_commit"
    /\ IF frame[p].correlation # {}
       THEN LET correlation == CHOOSE c \in frame[p].correlation : TRUE
            IN  /\ userCorrelations' =
                      {IF c.id = correlation.id
                          /\ PlatformField(correlation, frame[p].target_platform)
                                # frame[p].target_identifier
                       THEN SetPlatformField(c, frame[p].target_platform,
                                             frame[p].target_identifier)
                       ELSE c : c \in userCorrelations}
                /\ UNCHANGED nextCorrelationId
       ELSE /\ userCorrelations' = userCorrelations \cup
                  {SetPlatformField([id |-> nextCorrelationId,
                                     user_id |-> frame[p].user_id,
                                     organization_id |-> NoOrganization,
                                     email |-> frame[p].source_identifier,
                                     linear_user_id |-> None,
                                     slack_user_id |-> None],
                                    frame[p].target_platform,
                                    frame[p].target_identifier)}
            /\ nextCorrelationId' = nextCorrelationId + 1
    /\ frame' = [frame EXCEPT ![p] = [IdleFrame("returned") EXCEPT
                    !.user_id = frame[p].user_id,
                    !.source_platform = frame[p].source_platform,
                    !.source_identifier = frame[p].source_identifier,
                    !.target_platform = frame[p].target_platform,
                    !.target_identifier = frame[p].target_identifier]]
    /\ lastReturned' = p
    /\ UNCHANGED <<userMappings, nextMappingId, before, calls>>
    /\ UNCHANGED notMapVars

\* a query or a commit raises (SQLAlchemyError); create_mapping has no handler,
\* so the call ends there and what earlier commits persisted stays
Raise(p) ==
    /\ frame[p].pc # "idle"
    /\ frame' = Raised(p)
    /\ UNCHANGED <<userMappings, userCorrelations, nextMappingId, nextCorrelationId,
                   before, lastReturned, calls>>
    /\ UNCHANGED notMapVars

Step(p) ==
    \/ QueryConflictingMappings(p)
    \/ QueryConflictingCorrelations(p)
    \/ CommitRemovals(p)
    \/ GetMapping(p)
    \/ CommitMapping(p)
    \/ SyncQuery(p)
    \/ SyncCommit(p)
    \/ Raise(p)

----------------------------------------------------------------------------
(* Part 2: LinearMappingService, freshness and retry policy                 *)

MAPPING_CACHE_DAYS == 7
FAILED_RETRY_HOURS == 24
SecondsPerDay == 86400
SecondsPerHour == 3600

Emails == {"x@co.com", "y@co.com"}
\* the instants at which the clock is read (seconds): 0, 1 s, 24 h, 7 d, 8 d;
\* the ages between them include 24 h - 1 s, 24 h, 6 d, 7 d - 1 s, 7 d and 8 d
Instants == {0, 1, 24 * SecondsPerHour, 7 * SecondsPerDay, 8 * SecondsPerDay}
\* rows of integration_mappings
MaxRecords == 2

\* the team_emails arguments: every list of distinct emails
TeamEmailLists ==
    {l \in UNION {[1..n -> Emails] : n \in 0..Cardinality(Emails)} :
        \A i \in DOMAIN l, j \in DOMAIN l : l[i] = l[j] => i = j}

NoCall == [called |-> FALSE]

\* int(x / d) of Python: truncation toward zero
IntDiv(x, d) == IF x >= 0 THEN x \div d ELSE -((-x) \div d)

\* an age in days that rounds up instead of down
get_mapping_age_days_RoundsUp(mapping, now) ==
    (now - mapping.created_at + SecondsPerDay - 1) \div SecondsPerDay

\* _get_mapping_age_days: timedelta.days, the floor of the age in days
get_mapping_age_days(mapping, now) == (now - mapping.created_at) \div SecondsPerDay

\* an age in hours that rounds to the nearest hour (round() in place of int())
get_mapping_age_hours_Rounded(mapping, now) ==
    (now - mapping.created_at + SecondsPerHour \div 2) \div SecondsPerHour

\* _get_mapping_age_hours: int(age.total_seconds() / 3600)
get_mapping_age_hours(mapping, now) == IntDiv(now - mapping.created_at, SecondsPerHour)

\* a freshness test that forgets the age
is_mapping_fresh_IgnoresAge(mapping, now) == mapping.mapping_successful

\* _is_mapping_fresh: successful and less than MAPPING_CACHE_DAYS days old
is_mapping_fresh(mapping, now) ==
    IF ~mapping.mapping_successful THEN FALSE
    ELSE get_mapping_age_days(mapping, now) < MAPPING_CACHE_DAYS

\* _is_mapping_stale: successful and at least MAPPING_CACHE_DAYS days old
is_mapping_stale(mapping, now) ==
    IF ~mapping.mapping_successful THEN FALSE
    ELSE get_mapping_age_days(mapping, now) >= MAPPING_CACHE_DAYS

\* a retry test that forgets the age
should_retry_failed_mapping_Always(mapping, now) == ~mapping.mapping_successful

\* _should_retry_failed_mapping: failed and at least FAILED_RETRY_HOURS hours old
should_retry_failed_mapping(mapping, now) ==
    IF mapping.mapping_successful THEN FALSE
    ELSE get_mapping_age_hours(mapping, now) >= FAILED_RETRY_HOURS

\* _get_cached_mapping: the rows a query ordered by created_at desc may put first
get_cached_mapping(email, user_id, has_db) ==
    IF ~has_db THEN {}
    ELSE LET rows == {m \in integrationMappings :
                         /\ m.user_id = user_id
                         /\ m.source_identifier = email
                         /\ m.target_platform = "linear"}
         IN  {m \in rows : \A o \in rows : o.created_at <= m.created_at}

\* dict assignment d[k] = v
DictSet(d, k, v) == [x \in DOMAIN d \cup {k} |-> IF x = k THEN v ELSE d[x]]

\* the branch Phase 1 takes for an email whose cached mapping is `cached`
\* (the empty set for None, else one row): the if / elif chain of the loop body
CacheStatus(cached, now) ==
    IF cached = {} THEN "MISS"
    ELSE LET cached_mapping == CHOOSE m \in cached : TRUE
         IN  IF is_mapping_fresh(cached_mapping, now) THEN "HIT"
             ELSE IF is_mapping_stale(cached_mapping, now) THEN "STALE"
             ELSE IF ~cached_mapping.mapping_successful
                  THEN IF should_retry_failed_mapping(cached_mapping, now)
                       THEN "RETRY" ELSE "SKIP"
             ELSE "MISS"

\* one iteration of Phase 1: what the branch does to results,
\* emails_needing_mapping and cache_stats (status: the branch, as it is logged)
AnalyzeEmail(acc, email, cached, now) ==
    LET status == CacheStatus(cached, now)
        logged == [acc EXCEPT !.status = Append(@, status)]
    IN  CASE status = "HIT" ->
               [logged EXCEPT !.hits = @ + 1,
                              !.results = DictSet(@, email,
                                  (CHOOSE m \in cached : TRUE).target_identifier)]
          [] status = "STALE" ->
               [logged EXCEPT !.refreshes = @ + 1,
                              !.emails_needing_mapping = Append(@, email)]
          [] status = "RETRY" ->
               [logged EXCEPT !.retries = @ + 1,
                              !.emails_needing_mapping = Append(@, email)]
          [] status = "SKIP" -> logged
          [] OTHER ->
               [logged EXCEPT !.misses = @ + 1,
                              !.emails_needing_mapping = Append(@, email)]

\* Phase 1 of get_smart_linear_data: the loop over team_emails from index i
RECURSIVE AnalyzeFrom(_, _, _, _, _)
AnalyzeFrom(acc, team_emails, i, cached, now) ==
    IF i > Len(team_emails) THEN acc
    ELSE AnalyzeFrom(AnalyzeEmail(acc, team_emails[i], cached[i], now),
                     team_emails, i + 1, cached, now)

EmptyAcc ==
    [results |-> [e \in {} |-> None], emails_needing_mapping |-> <<>>,
     status |-> <<>>, hits |-> 0, misses |-> 0, refreshes |-> 0, retries |-> 0]

\* get_smart_linear_data(team_emails, user_id) on a service with or without a
\* database session
GetSmartLinearData(team_emails, user_id, has_db) ==
    /\ smart = NoCall
    /\ \E cached \in [1..Len(team_emails) -> SUBSET integrationMappings] :
          /\ \A i \in 1..Len(team_emails) :
                cached[i] \in First(get_cached_mapping(team_emails[i], user_id, has_db))
          /\ smart' = [called |-> TRUE, user_id |-> user_id, has_db |-> has_db,
                       team_emails |-> team_emails, cached |-> cached,
                       acc |-> AnalyzeFrom(EmptyAcc, team_emails, 1, cached, utcnow)]
    /\ UNCHANGED <<integrationMappings, utcnow>>
    /\ UNCHANGED notFreshVars

\* get_smart_linear_data: Phase 2 only logs; the results are returned and
\* the locals are dropped
ReturnResults ==
    /\ smart # NoCall
    /\ smart' = NoCall
    /\ UNCHANGED <<integrationMappings, utcnow>>
    /\ UNCHANGED notFreshVars

\* record_linear_mappings: one IntegrationMapping row for an email, target
\* platform linear, successful with the matched Linear user id or failed
RecordMapping(user_id, email, mapping_successful, target_identifier) ==
    /\ smart = NoCall
    /\ Cardinality(integrationMappings) < MaxRecords
    /\ integrationMappings' = integrationMappings \cup
          {[user_id |-> user_id, source_identifier |-> email,
            target_platform |-> "linear",
            mapping_successful |-> mapping_successful,
            target_identifier |-> IF mapping_successful THEN target_identifier ELSE None,
            created_at |-> utcnow]}
    /\ integrationMappings' # integrationMappings
    /\ UNCHANGED <<utcnow, smart>>
    /\ UNCHANGED notFreshVars

\* time passes
Tick ==
    /\ smart = NoCall
    /\ \E t \in Instants : t > utcnow /\ utcnow' = t
    /\ UNCHANGED <<integrationMappings, smart>>
    /\ UNCHANGED notFreshVars

FreshInit ==
    /\ integrationMappings = {}
    /\ utcnow = 0
    /\ smart = NoCall

----------------------------------------------------------------------------
(* Part 3: needs_refresh and _get_valid_token                               *)

\* skew_minutes, the default of needs_refresh
SkewMinutes == 60
\* expires_in default of a refresh response: 86400 seconds, in minutes
DefaultExpiresIn == 1440
\* NULL in column token_expires_at
NoExpiry == -1
\* NULL in a token column
NoToken == <<>>
\* a stored value that Fernet does not decrypt under the current key
Corrupt == <<"garbage">>
\* refresh calls made in one behaviour
MaxRefreshCalls == 2

\* the n-th access / refresh token the provider issued
AccessToken(n) == <<"access", n>>
RefreshToken(n) == <<"refresh", n>>

\* encrypt_token / decrypt_token (Fernet); decrypt_token raises on anything
\* encrypt_token did not produce
encrypt_token(token) == <<"fernet", token>>
CanDecrypt(encrypted_token) == Len(encrypted_token) = 2 /\ encrypted_token[1] = "fernet"
decrypt_token(encrypted_token) == encrypted_token[2]

\* the instants (minutes) at which the clock is read: a token issued at 0 for
\* 24 hours has 2 h, 90 min, 61 min, 60 min, 59 min, 0 min left or is expired
TokenInstants == {0, 1320, 1350, 1379, 1380, 1381, 1440, 1500}

\* a refresh buffer twice as long
needs_refresh_DoubleSkew(expires_at, now_utc) ==
    IF expires_at = NoExpiry THEN FALSE
    ELSE expires_at <= now_utc + 2 * SkewMinutes

\* a comparison the wrong way round
needs_refresh_Reversed(expires_at, now_utc) ==
    IF expires_at = NoExpiry THEN FALSE
    ELSE expires_at >= now_utc + SkewMinutes

\* needs_refresh(expires_at, skew_minutes=60)
needs_refresh(expires_at, now_utc) ==
    IF expires_at = NoExpiry THEN FALSE
    ELSE expires_at <= now_utc + SkewMinutes

IdleTokenFrame ==
    [pc |-> "idle",
     seen |-> [access_token |-> NoToken, refresh_token |-> NoToken,
               token_expires_at |-> NoExpiry, now_utc |-> 0],
     refresh_token |-> NoToken, called |-> FALSE, call |-> 0,
     response |-> "none", outcome |-> "none", token |-> NoToken]

\* the last statement: return decrypt_token(integration.access_token)
ReturnStored(fr, access_token) ==
    IF CanDecrypt(access_token)
    THEN [fr EXCEPT !.pc = "done", !.outcome = "returned",
                    !.token = decrypt_token(access_token)]
    ELSE [fr EXCEPT !.pc = "done", !.outcome = "raised", !.token = NoToken]

\* _get_valid_token up to its suspension point: the guard, the decryption of the
\* refresh token, and either the request to the refresh endpoint or the return
\* of the stored access token
GetValidToken(p) ==
    /\ tokenFrame[p].pc \in {"idle", "done"}
    /\ LET fr == [IdleTokenFrame EXCEPT
                     !.seen = [access_token |-> integration.access_token,
                               refresh_token |-> integration.refresh_token,
                               token_expires_at |-> integration.token_expires_at,
                               now_utc |-> clock]]
       IN  IF needs_refresh(integration.token_expires_at, clock)
              /\ integration.refresh_token # NoToken
           THEN IF CanDecrypt(integration.refresh_token)
                THEN /\ refreshCalls < MaxRefreshCalls
                     /\ refreshCalls' = refreshCalls + 1
                     /\ tokenFrame' = [tokenFrame EXCEPT ![p] =
                           [fr EXCEPT !.pc = "awaiting", !.called = TRUE,
                                      !.call = refreshCalls + 1,
                                      !.refresh_token =
                                          decrypt_token(integration.refresh_token)]]
                ELSE \* decrypt_token raises inside the try: logged, not raised
                     /\ tokenFrame' = [tokenFrame EXCEPT ![p] =
                           ReturnStored(fr, integration.access_token)]
                     /\ UNCHANGED refreshCalls
           ELSE /\ tokenFrame' = [tokenFrame EXCEPT ![p] =
                      ReturnStored(fr, integration.access_token)]
                /\ UNCHANGED refreshCalls
    /\ UNCHANGED <<integration, clock, provider>>
    /\ UNCHANGED notTokenVars

\* a refresh that keeps the refresh token it sent
new_refresh_token_KeepsSent(token_data, refresh_token) == refresh_token

\* new_refresh_token = token_data.get("refresh_token") or refresh_token
new_refresh_token(token_data, refresh_token) ==
    IF token_data.refresh_token # NoToken THEN token_data.refresh_token
    ELSE refresh_token

\* the refresh endpoint answers with a token set, with a new refresh token if
\* the provider rotates: the row is updated and committed and the new access
\* token is returned
RefreshSucceeds(p, rotates) ==
    /\ tokenFrame[p].pc = "awaiting"
    /\ LET token_data == [access_token |-> AccessToken(tokenFrame[p].call),
                          refresh_token |-> IF rotates
                                            THEN RefreshToken(tokenFrame[p].call)
                                            ELSE NoToken]
           new_access_token == token_data.access_token
           new_refresh == new_refresh_token(token_data, tokenFrame[p].refresh_token)
       IN  /\ provider' = IF rotates THEN token_data.refresh_token ELSE provider
           /\ integration' = [integration EXCEPT
                  !.access_token = encrypt_token(new_access_token),
                  !.refresh_token = encrypt_token(new_refresh),
                  !.token_expires_at = clock + DefaultExpiresIn]
           /\ tokenFrame' = [tokenFrame EXCEPT ![p].pc = "done",
                                               ![p].response = "tokens",
                                               ![p].outcome = "returned",
                                               ![p].token = new_access_token]
    /\ UNCHANGED <<clock, refreshCalls>>
    /\ UNCHANGED notTokenVars

\* a refresh failure that reaches the caller
RefreshFails_Raises(p) ==
    /\ tokenFrame[p].pc = "awaiting"
    /\ tokenFrame' = [tokenFrame EXCEPT ![p].pc = "done",
                                        ![p].response = "error",
                                        ![p].outcome = "raised"]
    /\ UNCHANGED <<integration, clock, refreshCalls, provider>>
    /\ UNCHANGED notTokenVars

\* the refresh endpoint raises, or answers without an access token: the
\* exception is logged and the stored access token is returned
RefreshFails(p) ==
    /\ tokenFrame[p].pc = "awaiting"
    /\ tokenFrame' = [tokenFrame EXCEPT ![p] =
          ReturnStored([tokenFrame[p] EXCEPT !.response = "error"],
                       tokenFrame[p].seen.access_token)]
    /\ UNCHANGED <<integration, clock, refreshCalls, provider>>
    /\ UNCHANGED notTokenVars

\* a provider that rotates refresh tokens: it accepts the refresh token it
\* issued last, answers with a new one and no longer accepts the one sent
RotatingProviderAccepts(p) ==
    /\ tokenFrame[p].pc = "awaiting"
    /\ tokenFrame[p].refresh_token = provider
    /\ RefreshSucceeds(p, TRUE)

\* a provider that rotates refresh tokens rejects every other refresh token
\* (invalid_grant)
RotatingProviderRejects(p) ==
    /\ tokenFrame[p].pc = "awaiting"
    /\ tokenFrame[p].refresh_token # provider
    /\ RefreshFails(p)

\* time passes
TokenTick ==
    /\ \E t \in TokenInstants : t > clock /\ clock' = t
    /\ UNCHANGED <<integration, tokenFrame, refreshCalls, provider>>
    /\ UNCHANGED notTokenVars

----------------------------------------------------------------------------
(* Part 5: LinearIntegrationOAuth.get_authorization_url                     *)

AuthUrl == "https://linear.app/oauth/authorize"
ClientIds == {"test-client-id", "client-2"}
RedirectUris == {"http://localhost/callback", "https://app.example.com/setup/linear/callback"}
\* the state argument: None, the default "", or a token
StateArgs == {None, "", "test-state", "state-1", "state-2"}
\* the code_challenge argument: None (the default), "", or a challenge
ChallengeArgs == {None, "", "test-challenge", "S256-verifier-1", "S256-verifier-2",
                  "code_challenge"}

\* urllib.parse.quote_plus on the values used here: the reserved characters
\* of a URI are percent-encoded, unreserved text is kept
quote_plus(v) ==
    CASE v = "http://localhost/callback" -> "http%3A%2F%2Flocalhost%2Fcallback"
      [] v = "https://app.example.com/setup/linear/callback"
           -> "https%3A%2F%2Fapp.example.com%2Fsetup%2Flinear%2Fcallback"
      [] OTHER -> v

\* urlencode(params): the pairs in insertion order, values quoted
urlencode(params) ==
    [k \in DOMAIN params |-> <<params[k][1], quote_plus(params[k][2])>>]

\* a URL builder that sends PKCE placeholders when no challenge is given
get_authorization_url_Placeholders(client_id, redirect_uri, state, code_challenge) ==
    [base |-> AuthUrl,
     query |-> urlencode(<< <<"client_id", client_id>>,
                            <<"redirect_uri", redirect_uri>>,
                            <<"scope", "read">>,
                            <<"response_type", "code">>,
                            <<"state", IF state = None THEN "" ELSE state>>,
                            <<"code_challenge",
                              IF code_challenge = None THEN "" ELSE code_challenge>>,
                            <<"code_challenge_method", "S256">> >>)]

\* get_authorization_url(state="", code_challenge=None): the URL as its base
\* and its query parameters
get_authorization_url(client_id, redirect_uri, state, code_challenge) ==
    LET params == << <<"client_id", client_id>>,
                     <<"redirect_uri", redirect_uri>>,
                     <<"scope", "read">>,
                     <<"response_type", "code">>,
                     <<"state", IF state = None THEN "" ELSE state>> >>
        pkce == IF code_challenge = None \/ code_challenge = "" THEN <<>>
                ELSE << <<"code_challenge", code_challenge>>,
                        <<"code_challenge_method", "S256">> >>
    IN  [base |-> AuthUrl, query |-> urlencode(params \o pkce)]

NoUrlCall == [called |-> FALSE, state |-> None, code_challenge |-> None,
              url |-> [base |-> AuthUrl, query |-> <<>>]]

\* a direct call of get_authorization_url
GetAuthorizationUrl(state, code_challenge) ==
    /\ authUrl' = [called |-> TRUE, state |-> state, code_challenge |-> code_challenge,
                   url |-> get_authorization_url(oauth.client_id, oauth.redirect_uri,
                                                 state, code_challenge)]
    /\ UNCHANGED oauth
    /\ UNCHANGED notUrlVars

\* the provider object of the process (settings.LINEAR_CLIENT_ID, FRONTEND_URL)
DefaultOAuth ==
    [client_id |-> "test-client-id", redirect_uri |-> "http://localhost/callback"]

UrlInit ==
    /\ oauth = DefaultOAuth
    /\ authUrl = NoUrlCall

----------------------------------------------------------------------------
(* Part 4: the OAuth flow with PKCE                                         *)

\* the user whose requests race on one LinearIntegration row
AuthUsers == {1}
\* current_user.organization_id
OrganizationOf(user_id) == 1
\* authorization codes the provider can issue
Codes == {"code-1", "code-2"}
\* workspace_id of the placeholder row connect_linear creates
Pending == "pending"
\* the organization id get_organization returns
WorkspaceId == "ws-1"
\* the viewer get_viewer returns
ViewerId == "ext-1"
ViewerEmail == "x@co.com"
\* OAuth handler calls issued in one behaviour
MaxAuthCalls == 3
\* connect_linear calls issued in one behaviour
MaxConnects == 2

\* generate_pkce_pair: the n-th code_verifier (secrets.token_urlsafe(32)) and
\* its code_challenge, the unpadded base64url of its SHA-256
Verifier(n) == "verifier-" \o ToString(n)
Challenge(code_verifier) == "S256-" \o code_verifier
generate_pkce_pair(n) == <<Verifier(n), Challenge(Verifier(n))>>
\* secrets.token_urlsafe(32), the state of the n-th connect_linear
StateToken(n) == "state-" \o ToString(n)

\* a code the provider has not issued; challenge None: issued for an
\* authorization request that carried no code_challenge
NoGrant == [status |-> "none", challenge |-> None]
NoTokenData == [access_token |-> NoToken, refresh_token |-> NoToken]
NoResult == [redirect_url |-> None, connected |-> FALSE, token_preview |-> NoToken,
             authorization_url |-> <<>>, state |-> None]

IdleAuthFrame ==
    [pc |-> "idle", op |-> "none", user_id |-> 0, organization_id |-> NoOrganization,
     code |-> None, state |-> None, integration |-> {}, code_verifier |-> None,
     verifier_undecryptable |-> FALSE, response |-> "none",
     token_data |-> NoTokenData, outcome |-> "none", status_code |-> 0, result |-> NoResult]

\* db.query(LinearIntegration).filter(LinearIntegration.user_id == user_id)
IntegrationsOf(user_id) == {i \in linearIntegrations : i.user_id = user_id}

\* the redirect_url of a completed and of a duplicate callback
Redirect(reuse) ==
    IF reuse THEN "/integrations?linear_connected=1&reuse=1"
    ELSE "/integrations?linear_connected=1"

\* raise HTTPException(status_code): the handler ends, its locals and the
\* session's pending changes are discarded
AuthRaised(fr, status_code) ==
    [IdleAuthFrame EXCEPT !.pc = "done", !.op = fr.op, !.user_id = fr.user_id,
                          !.response = fr.response,
                          !.outcome = "raised", !.status_code = status_code]

\* return result: the handler ends
AuthReturned(fr, result) ==
    [IdleAuthFrame EXCEPT !.pc = "done", !.op = fr.op, !.user_id = fr.user_id,
                          !.response = fr.response,
                          !.outcome = "returned", !.result = result]

\* entry of a handler
AuthBegin(p) ==
    /\ authFrame[p].pc \in {"idle", "done"}
    /\ authCalls < MaxAuthCalls
    /\ authCalls' = authCalls + 1

\* connect_linear: generate the PKCE pair and the state, store the encrypted
\* verifier on the user's row (a placeholder row if there is none), commit and
\* return the authorization URL
ConnectLinear(p, user_id, configured) ==
    /\ AuthBegin(p)
    /\ IF ~configured
       THEN /\ authFrame' = [authFrame EXCEPT ![p] =
                  AuthRaised([IdleAuthFrame EXCEPT !.op = "connect",
                                                   !.user_id = user_id], 503)]
            /\ UNCHANGED <<linearIntegrations, nextIntegrationId, pkceIssued>>
       ELSE /\ pkceIssued < MaxConnects
            /\ pkceIssued' = pkceIssued + 1
            /\ LET pair == generate_pkce_pair(pkceIssued + 1)
                   state == StateToken(pkceIssued + 1)
               IN  /\ \E found \in First(IntegrationsOf(user_id)) :
                         IF found # {}
                         THEN /\ linearIntegrations' =
                                    {IF i \in found
                                     THEN [i EXCEPT !.pkce_code_verifier =
                                                        encrypt_token(pair[1])]
                                     ELSE i : i \in linearIntegrations}
                              /\ UNCHANGED nextIntegrationId
                         ELSE /\ linearIntegrations' = linearIntegrations \cup
                                    {[id |-> nextIntegrationId,
                                      user_id |-> user_id,
                                      workspace_id |-> Pending,
                                      access_token |-> NoToken,
                                      refresh_token |-> NoToken,
                                      token_expires_at |-> NoExpiry,
                                      pkce_code_verifier |-> encrypt_token(pair[1])]}
                              /\ nextIntegrationId' = nextIntegrationId + 1
                   /\ authFrame' = [authFrame EXCEPT ![p] =
                         AuthReturned([IdleAuthFrame EXCEPT !.op = "connect",
                                                            !.user_id = user_id],
                            [NoResult EXCEPT
                                !.authorization_url =
                                    get_authorization_url(oauth.client_id,
                                        oauth.redirect_uri, state, pair[2]),
                                !.state = state])]
    /\ UNCHANGED <<workspaceMappings, grants, exchanged, secretChanged>>
    /\ UNCHANGED <<userCorrelations, nextCorrelationId>>
    /\ UNCHANGED notAuthVars

\* the user approves an authorization request: the provider issues a code
\* bound to the code_challenge of the n-th connect_linear (n = 0: a request
\* built without code_challenge)
Authorize(code, n) ==
    /\ grants[code].status = "none"
    /\ n \in 0..pkceIssued
    /\ grants' = [grants EXCEPT ![code] =
          [status |-> "issued",
           challenge |-> IF n = 0 THEN None ELSE Challenge(Verifier(n))]]
    /\ UNCHANGED <<linearIntegrations, nextIntegrationId, workspaceMappings, authFrame,
                   exchanged, pkceIssued, secretChanged, authCalls>>
    /\ UNCHANGED <<userCorrelations, nextCorrelationId>>
    /\ UNCHANGED notAuthVars

\* the state a callback request can carry: none, or the state the first
\* connect_linear returned
CallbackStates == {None, StateToken(1)}

\* linear_oauth_callback with a code, and _process_callback up to its first
\* suspension point: the state is logged, the user's row is loaded and the
\* stored PKCE verifier decrypted (a failure is logged, the verifier is then
\* None), the code is sent to the token endpoint
ProcessCallback(p, user_id, code, state) ==
    /\ AuthBegin(p)
    /\ \E found \in First(IntegrationsOf(user_id)) :
          LET stored == IF found = {} THEN NoToken
                        ELSE (CHOOSE i \in found : TRUE).pkce_code_verifier
          IN  authFrame' = [authFrame EXCEPT ![p] =
                 [IdleAuthFrame EXCEPT
                     !.pc = "exchange", !.op = "callback",
                     !.user_id = user_id,
                     !.organization_id = OrganizationOf(user_id),
                     !.code = code, !.state = state, !.integration = found,
                     !.code_verifier = IF stored # NoToken /\ CanDecrypt(stored)
                                       THEN decrypt_token(stored) ELSE None,
                     !.verifier_undecryptable =
                         (stored # NoToken /\ ~CanDecrypt(stored))]]
    /\ UNCHANGED <<linearIntegrations, nextIntegrationId, workspaceMappings,
                   grants, exchanged, pkceIssued, secretChanged>>
    /\ UNCHANGED <<userCorrelations, nextCorrelationId>>
    /\ UNCHANGED notAuthVars

\* the provider accepts a code it issued and has not redeemed, if the verifier
\* matches the challenge the code was issued for
Accepts(code, code_verifier) ==
    /\ grants[code].status = "issued"
    /\ \/ grants[code].challenge = None
       \/ /\ code_verifier # None
          /\ Challenge(code_verifier) = grants[code].challenge

\* a callback that surfaces every rejected code
Rejected_AlwaysRaises(fr) == AuthRaised(fr, 400)

\* the except HTTPException branch of the exchange, on invalid_grant: success
\* for a row loaded with a workspace other than "pending", re-raised otherwise
Rejected(fr) ==
    IF /\ fr.integration # {}
       /\ \A i \in fr.integration : i.workspace_id # Pending
    THEN AuthReturned(fr, [NoResult EXCEPT !.redirect_url = Redirect(TRUE)])
    ELSE AuthRaised(fr, 400)

\* exchange_code_for_token answers: the tokens, or the provider's invalid_grant,
\* which is a success for a row already connected and is raised otherwise
ExchangeCode(p, with_refresh) ==
    /\ authFrame[p].pc = "exchange"
    /\ LET fr == authFrame[p]
           n == Cardinality(exchanged) + 1
       IN  IF Accepts(fr.code, fr.code_verifier)
           THEN /\ grants' = [grants EXCEPT ![fr.code].status = "redeemed"]
                /\ exchanged' = exchanged \cup
                      {[code |-> fr.code, code_verifier |-> fr.code_verifier, n |-> n]}
                /\ authFrame' = [authFrame EXCEPT
                      ![p].pc = "lookup",
                      ![p].response = "tokens",
                      ![p].token_data =
                          [access_token |-> AccessToken(n),
                           refresh_token |-> IF with_refresh THEN RefreshToken(n)
                                             ELSE NoToken]]
           ELSE /\ authFrame' = [authFrame EXCEPT ![p] =
                      Rejected([fr EXCEPT !.response = "invalid_grant"])]
                /\ UNCHANGED <<grants, exchanged>>
    /\ UNCHANGED <<linearIntegrations, nextIntegrationId, workspaceMappings,
                   pkceIssued, secretChanged, authCalls>>
    /\ UNCHANGED <<userCorrelations, nextCorrelationId>>
    /\ UNCHANGED notAuthVars

\* the exchange fails otherwise (transport failure, another provider error, a
\* response without access_token): HTTP 400 to the caller
ExchangeFails(p) ==
    /\ authFrame[p].pc = "exchange"
    /\ authFrame' = [authFrame EXCEPT ![p] =
          AuthRaised([authFrame[p] EXCEPT !.response = "error"], 400)]
    /\ UNCHANGED <<linearIntegrations, nextIntegrationId, workspaceMappings,
                   grants, exchanged, pkceIssued, secretChanged, authCalls>>
    /\ UNCHANGED <<userCorrelations, nextCorrelationId>>
    /\ UNCHANGED notAuthVars

\* an UPDATE of the loaded row: SQLAlchemy writes the columns whose new value
\* differs from the value loaded, the others keep what the table holds
UpdatedColumn(loaded, current, new) == IF new = loaded THEN current ELSE new

\* a session that writes its pending changes although its commit raised
db_commit_Partial(ok, table, pending) == pending

\* db.commit(): the session's pending changes reach the table, or the commit
\* raises and the table keeps what it held
db_commit(ok, table, pending) == IF ok THEN pending ELSE table

\* _process_callback from the answer of get_organization to its return:
\* get_viewer, the upsert of the row, the workspace mapping, the user
\* correlation and the commit, which succeeds or raises (the connection is
\* lost): HTTP 400 by the handler's except Exception
StoreTokens(p, organization, viewer_ok, commit_ok) ==
    /\ authFrame[p].pc = "lookup"
    /\ LET fr == authFrame[p]
           loaded == fr.integration
           enc_access == encrypt_token(fr.token_data.access_token)
           enc_refresh == IF fr.token_data.refresh_token # NoToken
                          THEN encrypt_token(fr.token_data.refresh_token)
                          ELSE NoToken
           token_expires_at == clock + DefaultExpiresIn
           gone == loaded # {} /\ \A i \in loaded : i.id \notin Ids(linearIntegrations)
           taken == /\ fr.organization_id # NoOrganization
                    /\ \E m \in workspaceMappings :
                          /\ m.workspace_id = WorkspaceId
                          /\ m.organization_id # fr.organization_id
       IN  IF organization # "ok" \/ gone \/ taken
           THEN \* no workspace id, GraphQL error, StaleDataError (the row was
                \* deleted) or IntegrityError (unique workspace_id): HTTP 400,
                \* nothing is committed
                /\ authFrame' = [authFrame EXCEPT ![p] = AuthRaised(fr, 400)]
                /\ UNCHANGED <<linearIntegrations, nextIntegrationId, workspaceMappings,
                               userCorrelations, nextCorrelationId>>
           ELSE /\ IF loaded # {}
                   THEN LET l == CHOOSE i \in loaded : TRUE
                        IN  /\ linearIntegrations' =
                                db_commit(commit_ok, linearIntegrations,
                                  {IF c.id = l.id
                                   THEN [c EXCEPT
                                      !.access_token =
                                          UpdatedColumn(l.access_token, c.access_token,
                                                        enc_access),
                                      !.refresh_token =
                                          UpdatedColumn(l.refresh_token, c.refresh_token,
                                                        enc_refresh),
                                      !.workspace_id =
                                          UpdatedColumn(l.workspace_id, c.workspace_id,
                                                        WorkspaceId),
                                      !.token_expires_at =
                                          UpdatedColumn(l.token_expires_at,
                                                        c.token_expires_at,
                                                        token_expires_at),
                                      !.pkce_code_verifier =
                                          UpdatedColumn(l.pkce_code_verifier,
                                                        c.pkce_code_verifier, NoToken)]
                                   ELSE c : c \in linearIntegrations})
                            /\ UNCHANGED nextIntegrationId
                   ELSE /\ linearIntegrations' =
                              db_commit(commit_ok, linearIntegrations,
                                 linearIntegrations \cup
                              {[id |-> nextIntegrationId,
                                user_id |-> fr.user_id,
                                workspace_id |-> WorkspaceId,
                                access_token |-> enc_access,
                                refresh_token |-> enc_refresh,
                                token_expires_at |-> token_expires_at,
                                pkce_code_verifier |-> NoToken]})
                        /\ nextIntegrationId' =
                              db_commit(commit_ok, nextIntegrationId,
                                        nextIntegrationId + 1)
                /\ workspaceMappings' =
                    db_commit(commit_ok, workspaceMappings,
                      IF /\ fr.organization_id # NoOrganization
                         /\ ~\E m \in workspaceMappings :
                                /\ m.workspace_id = WorkspaceId
                                /\ m.organization_id = fr.organization_id
                      THEN workspaceMappings \cup
                              {[workspace_id |-> WorkspaceId,
                                organization_id |-> fr.organization_id,
                                owner_user_id |-> fr.user_id]}
                      ELSE workspaceMappings)
                /\ IF viewer_ok /\ fr.organization_id # NoOrganization
                   THEN \E corr \in First({c \in userCorrelations :
                                              /\ c.organization_id = fr.organization_id
                                              /\ c.email = ViewerEmail}) :
                           IF corr # {}
                           THEN /\ userCorrelations' =
                                    db_commit(commit_ok, userCorrelations,
                                      {IF c \in corr
                                       THEN [c EXCEPT !.linear_user_id = ViewerId]
                                       ELSE c : c \in userCorrelations})
                                /\ UNCHANGED nextCorrelationId
                           ELSE /\ userCorrelations' =
                                    db_commit(commit_ok, userCorrelations,
                                      userCorrelations \cup
                                      {[id |-> nextCorrelationId,
                                        user_id |-> fr.user_id,
                                        organization_id |-> fr.organization_id,
                                        email |-> ViewerEmail,
                                        linear_user_id |-> ViewerId,
                                        slack_user_id |-> None]})
                                /\ nextCorrelationId' =
                                      db_commit(commit_ok, nextCorrelationId,
                                                nextCorrelationId + 1)
                   ELSE UNCHANGED <<userCorrelations, nextCorrelationId>>
                /\ authFrame' = [authFrame EXCEPT ![p] =
                      IF commit_ok
                      THEN AuthReturned(fr, [NoResult EXCEPT
                                                !.redirect_url = Redirect(FALSE)])
                      ELSE AuthRaised(fr, 400)]
    /\ UNCHANGED <<grants, exchanged, pkceIssued, secretChanged, authCalls>>
    /\ UNCHANGED notAuthVars

\* a guard that lets a placeholder row through
not_connected_IgnoresPending(found) == found = {}

\* if not integration or integration.workspace_id == "pending"
not_connected(found) == found = {} \/ \A i \in found : i.workspace_id = Pending

\* get_linear_status: not connected without a row or with a pending one; else
\* connected, with a preview of the access token unless it is absent or does
\* not decrypt
GetLinearStatus(p, user_id) ==
    /\ AuthBegin(p)
    /\ \E found \in First(IntegrationsOf(user_id)) :
          LET fr == [IdleAuthFrame EXCEPT !.op = "status", !.user_id = user_id]
          IN  authFrame' = [authFrame EXCEPT ![p] =
                 IF not_connected(found)
                 THEN AuthReturned(fr, NoResult)
                 ELSE LET i == CHOOSE r \in found : TRUE
                      IN  AuthReturned(fr, [NoResult EXCEPT
                             !.connected = TRUE,
                             !.token_preview =
                                 IF i.access_token # NoToken /\ CanDecrypt(i.access_token)
                                 THEN decrypt_token(i.access_token)
                                 ELSE NoToken])]
    /\ UNCHANGED <<linearIntegrations, nextIntegrationId, workspaceMappings,
                   grants, exchanged, pkceIssued, secretChanged>>
    /\ UNCHANGED <<userCorrelations, nextCorrelationId>>
    /\ UNCHANGED notAuthVars

\* list_linear_teams up to its call of _get_valid_token, and with the same
\* guard select_linear_teams, test_linear_integration, sync_linear_users,
\* get_linear_users, auto_map_linear_users and get_unmapped_linear_users:
\* HTTP 404 without a row or with a pending one, else the row loaded is
\* handed to _get_valid_token
ListLinearTeams(p, user_id) ==
    /\ AuthBegin(p)
    /\ \E found \in First(IntegrationsOf(user_id)) :
          LET fr == [IdleAuthFrame EXCEPT !.op = "teams", !.user_id = user_id]
          IN  authFrame' = [authFrame EXCEPT ![p] =
                 IF not_connected(found)
                 THEN AuthRaised(fr, 404)
                 ELSE AuthReturned([fr EXCEPT !.response = "token"], NoResult)]
    /\ UNCHANGED <<linearIntegrations, nextIntegrationId, workspaceMappings,
                   grants, exchanged, pkceIssued, secretChanged>>
    /\ UNCHANGED <<userCorrelations, nextCorrelationId>>
    /\ UNCHANGED notAuthVars

\* disconnect_linear: 404 without a row; else delete the workspace mapping of
\* (workspace, organization) and the row, and commit
DisconnectLinear(p, user_id) ==
    /\ AuthBegin(p)
    /\ \E found \in First(IntegrationsOf(user_id)) :
          LET organization_id == OrganizationOf(user_id)
              fr == [IdleAuthFrame EXCEPT !.op = "disconnect", !.user_id = user_id]
          IN  IF found = {}
              THEN /\ authFrame' = [authFrame EXCEPT ![p] = AuthRaised(fr, 404)]
                   /\ UNCHANGED <<linearIntegrations, workspaceMappings>>
              ELSE /\ workspaceMappings' =
                         IF organization_id = NoOrganization THEN workspaceMappings
                         ELSE {m \in workspaceMappings :
                                  ~ /\ \E i \in found :
                                          m.workspace_id = i.workspace_id
                                    /\ m.organization_id = organization_id}
                   /\ linearIntegrations' = linearIntegrations \ found
                   /\ authFrame' = [authFrame EXCEPT ![p] = AuthReturned(fr, NoResult)]
    /\ UNCHANGED <<nextIntegrationId, grants, exchanged, pkceIssued, secretChanged>>
    /\ UNCHANGED <<userCorrelations, nextCorrelationId>>
    /\ UNCHANGED notAuthVars

\* the process restarts with another JWT_SECRET_KEY: get_encryption_key derives
\* another key, under which nothing stored so far decrypts
ChangeSecret ==
    /\ ~secretChanged
    /\ secretChanged' = TRUE
    /\ LET Lost(v) == IF v = NoToken THEN NoToken ELSE Corrupt
       IN  linearIntegrations' =
              {[i EXCEPT !.access_token = Lost(i.access_token),
                         !.refresh_token = Lost(i.refresh_token),
                         !.pkce_code_verifier = Lost(i.pkce_code_verifier)]
                  : i \in linearIntegrations}
    /\ UNCHANGED <<nextIntegrationId, workspaceMappings, authFrame, grants, exchanged,
                   pkceIssued, authCalls>>
    /\ UNCHANGED <<userCorrelations, nextCorrelationId>>
    /\ UNCHANGED notAuthVars

AuthInit ==
    /\ linearIntegrations = {}
    /\ nextIntegrationId = 1
    /\ workspaceMappings = {}
    /\ authFrame = [p \in Procs |-> IdleAuthFrame]
    /\ grants = [code \in Codes |-> NoGrant]
    /\ exchanged = {}
    /\ pkceIssued = 0
    /\ secretChanged = FALSE
    /\ authCalls = 0

----------------------------------------------------------------------------
(* Part 6: EnhancedLinearMatcher                                            *)

\* A Python str is a sequence of one-character strings; a dict value is
\* absent (no such key), None, or a str.
Absent == [kind |-> "absent", str |-> <<>>]
Null == [kind |-> "None", str |-> <<>>]
Str(s) == [kind |-> "str", str |-> s]
\* linear_user.get(key): None for an absent key
Get(field) == IF field.kind = "absent" THEN Null ELSE field
\* truthiness of a value: None and "" are falsy
Truthy(field) == field.kind = "str" /\ field.str # <<>>

Uppercase == <<"A", "B", "C", "D", "E", "F", "G", "H", "I", "J", "K", "L", "M",
               "N", "O", "P", "Q", "R", "S", "T", "U", "V", "W", "X", "Y", "Z">>
Lowercase == <<"a", "b", "c", "d", "e", "f", "g", "h", "i", "j", "k", "l", "m",
               "n", "o", "p", "q", "r", "s", "t", "u", "v", "w", "x", "y", "z">>

\* str.lower()
lower(s) ==
    [k \in DOMAIN s |->
        IF \E u \in DOMAIN Uppercase : Uppercase[u] = s[k]
        THEN Lowercase[CHOOSE u \in DOMAIN Uppercase : Uppercase[u] = s[k]]
        ELSE s[k]]

\* str.split(sep): the pieces between the separators, empty pieces kept
RECURSIVE split(_, _)
split(s, sep) ==
    IF \E k \in DOMAIN s : s[k] = sep
    THEN LET k == CHOOSE i \in DOMAIN s :
                     s[i] = sep /\ \A j \in 1..(i - 1) : s[j] # sep
         IN  <<SubSeq(s, 1, k - 1)>> \o split(SubSeq(s, k + 1, Len(s)), sep)
    ELSE <<s>>

\* str.split(): the runs of non-whitespace characters
split_whitespace(s) == SelectSeq(split(s, " "), LAMBDA w : w # <<>>)

\* str.strip()
RECURSIVE strip(_)
strip(s) ==
    IF s # <<>> /\ s[1] = " " THEN strip(Tail(s))
    ELSE IF s # <<>> /\ s[Len(s)] = " " THEN strip(SubSeq(s, 1, Len(s) - 1))
    ELSE s

\* sub in s
Contains(sub, s) ==
    \E i \in 0..(Len(s) - Len(sub)) : SubSeq(s, i + 1, i + Len(sub)) = sub

\* a score is a rational number <<numerator, denominator>> in lowest terms
RECURSIVE GCD(_, _)
GCD(a, b) == IF b = 0 THEN a ELSE GCD(b, a % b)
Rational(n, d) == IF n = 0 THEN <<0, 1>> ELSE <<n \div GCD(n, d), d \div GCD(n, d)>>
Zero == <<0, 1>>
One == <<1, 1>>
Less(x, y) == x[1] * y[2] < y[1] * x[2]
Leq(x, y) == x[1] * y[2] <= y[1] * x[2]
Times(x, y) == Rational(x[1] * y[1], x[2] * y[2])
Maximum(x, y) == IF Less(x, y) THEN y ELSE x

\* the length of the common run of a from i and b from j
RECURSIVE CommonRun(_, _, _, _)
CommonRun(a, i, b, j) ==
    IF i <= Len(a) /\ j <= Len(b) /\ a[i] = b[j]
    THEN 1 + CommonRun(a, i + 1, b, j + 1)
    ELSE 0

\* SequenceMatcher.find_longest_match: the longest matching block, of those
\* the one starting earliest in a, and of those the one starting earliest in b
find_longest_match(a, b) ==
    LET blocks == {[i |-> i, j |-> j, size |-> CommonRun(a, i, b, j)] :
                       i \in DOMAIN a, j \in DOMAIN b}
    IN  CHOOSE m \in blocks :
            \A o \in blocks :
                \/ o.size < m.size
                \/ o.size = m.size /\ (m.i < o.i \/ (m.i = o.i /\ m.j <= o.j))

\* SequenceMatcher.get_matching_blocks: the characters in the longest block
\* and, recursively, in the blocks to its left and to its right
RECURSIVE matches(_, _)
matches(a, b) ==
    IF a = <<>> \/ b = <<>> THEN 0
    ELSE LET m == find_longest_match(a, b)
         IN  IF m.size = 0 THEN 0
             ELSE m.size
                  + matches(SubSeq(a, 1, m.i - 1), SubSeq(b, 1, m.j - 1))
                  + matches(SubSeq(a, m.i + m.size, Len(a)),
                            SubSeq(b, m.j + m.size, Len(b)))

\* SequenceMatcher(None, a, b).ratio(): 2.0 * matches / (len(a) + len(b))
ratio(a, b) ==
    IF Len(a) + Len(b) = 0 THEN One
    ELSE Rational(2 * matches(a, b), Len(a) + Len(b))

\* the default confidence_threshold, the factor of the first-name score, the
\* bound of the last-name score and the scores of a last-name and of a
\* both-parts match
ConfidenceThreshold == <<7, 10>>
FirstNameFactor == <<17, 20>>
LastNameBound == <<17, 20>>
LastNameScore == <<3, 4>>
BothPartsScore == <<4, 5>>

\* a score with both name components dampened by 0.85
email_score_Dampened(email_name, name) ==
    LET email_parts == split(email_name, ".")
        name_parts == split_whitespace(name)
        first == IF Len(name_parts) >= 1 /\ email_parts[1] # <<>>
                 THEN Times(ratio(email_parts[1], name_parts[1]), FirstNameFactor)
                 ELSE Zero
        last == IF Len(email_parts) >= 2 /\ Len(name_parts) >= 2
                   /\ email_parts[Len(email_parts)] # <<>>
                THEN Times(ratio(email_parts[Len(email_parts)],
                                 name_parts[Len(name_parts)]), FirstNameFactor)
                ELSE Zero
    IN  Maximum(Maximum(ratio(email_name, name), first), last)

\* the score match_email_to_linear gives a candidate name: the whole-string
\* ratio, 0.85 times the ratio of the first parts, and 0.75 when the ratio of
\* the last parts exceeds 0.85
email_score(email_name, name) ==
    LET email_parts == split(email_name, ".")
        name_parts == split_whitespace(name)
        score == ratio(email_name, name)
        with_first == IF Len(email_parts) >= 1 /\ Len(name_parts) >= 1
                         /\ email_parts[1] # <<>> /\ name_parts[1] # <<>>
                      THEN Maximum(score, Times(ratio(email_parts[1], name_parts[1]),
                                                FirstNameFactor))
                      ELSE score
    IN  IF /\ Len(email_parts) >= 2 /\ Len(name_parts) >= 2
           /\ email_parts[Len(email_parts)] # <<>>
           /\ name_parts[Len(name_parts)] # <<>>
           /\ Less(LastNameBound, ratio(email_parts[Len(email_parts)],
                                        name_parts[Len(name_parts)]))
        THEN Maximum(with_first, LastNameScore)
        ELSE with_first

\* the score match_name_to_linear gives a candidate name: the whole-string
\* ratio, and 0.80 when the first and the last part of the team name both
\* occur in it
name_score(team_name_lower, linear_name) ==
    LET team_parts == split_whitespace(team_name_lower)
        linear_parts == split_whitespace(linear_name)
        score == ratio(team_name_lower, linear_name)
    IN  IF /\ Len(team_parts) >= 2 /\ Len(linear_parts) >= 2
           /\ Contains(team_parts[Len(team_parts)], linear_name)
           /\ Contains(team_parts[1], linear_name)
        THEN Maximum(score, BothPartsScore)
        ELSE score

NoMatch == [index |-> 0, user_id |-> Null, name |-> Null, score |-> Zero]

\* the loop of the fuzzy pass over the scored candidates: a candidate replaces
\* the best one so far if its score is higher and reaches the threshold
RECURSIVE best_match(_, _, _, _)
best_match(scored, k, best, confidence_threshold) ==
    IF k > Len(scored) THEN best
    ELSE IF /\ scored[k].eligible
            /\ Less(best.score, scored[k].score)
            /\ Leq(confidence_threshold, scored[k].score)
         THEN best_match(scored, k + 1,
                         [index |-> k, user_id |-> scored[k].user_id,
                          name |-> scored[k].name, score |-> scored[k].score],
                         confidence_threshold)
         ELSE best_match(scored, k + 1, best, confidence_threshold)

\* the fuzzy loop ends in an AttributeError: the name key of some candidate
\* is present with the value None, and None has no lower()
NameRaises(linear_users) == \E k \in DOMAIN linear_users : linear_users[k].name.kind = "None"

\* an email pass that compares the addresses as they are written
exact_email_match_CaseSensitive(team_email, linear_users) ==
    LET hits == {k \in DOMAIN linear_users :
                    /\ Truthy(linear_users[k].email)
                    /\ linear_users[k].email.str = team_email}
    IN  IF hits = {} THEN 0 ELSE CHOOSE k \in hits : \A h \in hits : k <= h

\* Strategy 1: the index of the first candidate whose email equals the team
\* email in lower case, 0 if there is none
exact_email_match(team_email, linear_users) ==
    LET hits == {k \in DOMAIN linear_users :
                    /\ Truthy(linear_users[k].email)
                    /\ lower(linear_users[k].email.str) = lower(team_email)}
    IN  IF hits = {} THEN 0 ELSE CHOOSE k \in hits : \A h \in hits : k <= h

\* match_email_to_linear(team_email, linear_users, confidence_threshold)
match_email_to_linear(team_email, linear_users, confidence_threshold) ==
    LET hit == exact_email_match(team_email, linear_users)
        email_name == lower(split(team_email, "@")[1])
        scored == [k \in DOMAIN linear_users |->
                     LET name == IF linear_users[k].name.kind = "str"
                                 THEN lower(linear_users[k].name.str) ELSE <<>>
                     IN  [eligible |-> name # <<>> /\ Truthy(linear_users[k].id),
                          user_id |-> Get(linear_users[k].id),
                          name |-> Get(linear_users[k].name),
                          score |-> IF name # <<>> THEN email_score(email_name, name)
                                    ELSE Zero]]
    IN  IF hit # 0
        THEN [outcome |-> "returned", pass |-> "email", scores |-> <<>>,
              match |-> [index |-> hit, user_id |-> Get(linear_users[hit].id),
                         name |-> Get(linear_users[hit].name), score |-> One]]
        ELSE IF NameRaises(linear_users)
        THEN [outcome |-> "raised", pass |-> "name", scores |-> <<>>,
              match |-> NoMatch]
        ELSE [outcome |-> "returned", pass |-> "name",
              scores |-> [k \in DOMAIN scored |-> scored[k].score],
              match |-> best_match(scored, 1, NoMatch, confidence_threshold)]

\* match_name_to_linear(team_name, linear_users, confidence_threshold)
match_name_to_linear(team_name, linear_users, confidence_threshold) ==
    LET team_name_lower == strip(lower(team_name))
        scored == [k \in DOMAIN linear_users |->
                     LET linear_name == IF linear_users[k].name.kind = "str"
                                        THEN strip(lower(linear_users[k].name.str))
                                        ELSE <<>>
                     IN  [eligible |-> linear_name # <<>> /\ Truthy(linear_users[k].id),
                          user_id |-> Get(linear_users[k].id),
                          name |-> Get(linear_users[k].name),
                          score |-> IF linear_name # <<>>
                                    THEN name_score(team_name_lower, linear_name)
                                    ELSE Zero]]
    IN  IF NameRaises(linear_users)
        THEN [outcome |-> "raised", pass |-> "name", scores |-> <<>>,
              match |-> NoMatch]
        ELSE [outcome |-> "returned", pass |-> "name",
              scores |-> [k \in DOMAIN scored |-> scored[k].score],
              match |-> best_match(scored, 1, NoMatch, confidence_threshold)]

\* candidates in one list of Linear users
MaxCandidates == 2

\* team emails: a@x.co, A@X.co, al.bo@x.co, bo@x.co
TeamEmails ==
    { <<"a", "@", "x", ".", "c", "o">>,
      <<"A", "@", "X", ".", "c", "o">>,
      <<"a", "l", ".", "b", "o", "@", "x", ".", "c", "o">>,
      <<"b", "o", "@", "x", ".", "c", "o">> }

\* team names: "al bo", "bo al", " Bo ", "b"
TeamNames ==
    { <<"a", "l", " ", "b", "o">>,
      <<"b", "o", " ", "a", "l">>,
      <<" ", "B", "o", " ">>,
      <<"b">> }

\* Linear users as the GraphQL client returns them, with id, email and name
\* present, None or absent
LinearUsers ==
    { [id |-> Str(<<"u", "1">>), email |-> Str(<<"a", "@", "x", ".", "c", "o">>),
       name |-> Str(<<"A">>)],
      [id |-> Str(<<"u", "2">>), email |-> Str(<<"b", "@", "x", ".", "c", "o">>),
       name |-> Str(<<"A", "l", " ", "B", "o">>)],
      [id |-> Str(<<"u", "3">>), email |-> Null, name |-> Str(<<"a", "l">>)],
      [id |-> Str(<<"u", "4">>), email |-> Absent, name |-> Str(<<"X", " ", "B", "o">>)],
      [id |-> Str(<<"u", "5">>), email |-> Str(<<"A", "@", "X", ".", "C", "O">>),
       name |-> Str(<<"a", "l", " ", "b", "o">>)],
      [id |-> Str(<<"u", "6">>), email |-> Str(<<>>), name |-> Str(<<"b", "o">>)],
      [id |-> Str(<<"u", "7">>), email |-> Absent, name |-> Str(<<"b">>)],
      [id |-> Null, email |-> Str(<<"a", "@", "x", ".", "c", "o">>),
       name |-> Str(<<"b", "o">>)],
      [id |-> Absent, email |-> Absent, name |-> Str(<<"a", "l", " ", "b", "o">>)],
      [id |-> Str(<<"u", "8">>), email |-> Null, name |-> Absent],
      [id |-> Str(<<"u", "9">>), email |-> Null, name |-> Str(<<>>)],
      [id |-> Str(<<"u", "1", "0">>),
       email |-> Str(<<"B", "o", "@", "X", ".", "c", "o">>), name |-> Null] }

\* the lists of at most MaxCandidates Linear users
CandidateLists == UNION {[1..n -> LinearUsers] : n \in 0..MaxCandidates}

NoMatchCall ==
    [called |-> FALSE, op |-> "none", team |-> <<>>, linear_users |-> <<>>,
     outcome |-> "none", pass |-> "none", scores |-> <<>>, match |-> NoMatch]

\* the call of match_email_to_linear on the arguments, with the default
\* threshold
MatchEmailToLinear ==
    /\ ~matched.called
    /\ matched.op = "email"
    /\ LET r == match_email_to_linear(matched.team, matched.linear_users,
                                      ConfidenceThreshold)
       IN  matched' = [matched EXCEPT !.called = TRUE, !.outcome = r.outcome,
                                      !.pass = r.pass, !.scores = r.scores,
                                      !.match = r.match]
    /\ UNCHANGED notMatchVars

\* the call of match_name_to_linear on the arguments, with the default
\* threshold
MatchNameToLinear ==
    /\ ~matched.called
    /\ matched.op = "name"
    /\ LET r == match_name_to_linear(matched.team, matched.linear_users,
                                     ConfidenceThreshold)
       IN  matched' = [matched EXCEPT !.called = TRUE, !.outcome = r.outcome,
                                      !.pass = r.pass, !.scores = r.scores,
                                      !.match = r.match]
    /\ UNCHANGED notMatchVars

MatchInit == matched = NoMatchCall

----------------------------------------------------------------------------
(* Part 7: the pagination loops over get_issues and get_users               *)

\* the endpoints that page through the provider, with the query each sends
Endpoints == {"test", "sync-users", "linear-users", "auto-map"}
QueryOf(endpoint) == IF endpoint = "test" THEN "issues" ELSE "users"
\* max_pages of the loop over issues and of the loops over users
MaxIssuePages == 10
MaxUserPages == 20
max_pages(endpoint) == IF QueryOf(endpoint) = "issues" THEN MaxIssuePages ELSE MaxUserPages
\* the first argument the loops pass, and Linear's largest page
PageSize == 100
LinearMaxPage == 100
\* nodes on one page of the provider's answer
MaxNodes == 1

\* variables["first"]: get_issues caps it, get_users sends it as it is
first_sent(query, first) ==
    IF query = "issues" THEN (IF first < LinearMaxPage THEN first ELSE LinearMaxPage)
    ELSE first

IdlePager ==
    [pc |-> "idle", endpoint |-> "none", max_pages |-> 0, pages |-> 0, first |-> 0,
     after |-> None, cursor |-> None, all |-> 0, has_next |-> FALSE,
     outcome |-> "none", status_code |-> 0, result |-> [success |-> FALSE]]

\* the response of an endpoint that has collected n nodes
PageResult(endpoint, n) ==
    CASE endpoint = "test" ->
           [success |-> TRUE, workload_preview |-> [total_issues |-> n]]
      [] endpoint = "sync-users" -> [success |-> TRUE, total_linear_users |-> n]
      [] endpoint = "linear-users" -> [success |-> TRUE, users |-> n]
      [] endpoint = "auto-map" -> [success |-> TRUE, linear_user_count |-> n]

\* a loop with one iteration more than max_pages
more_iterations_OneMore(fr) == fr.pages < fr.max_pages + 1

\* for _ in range(max_pages): another iteration is left
more_iterations(fr) == fr.pages < fr.max_pages

\* the request of one iteration: first and, after the first page, the cursor
Request(fr) ==
    [fr EXCEPT !.pc = "fetching", !.pages = fr.pages + 1,
               !.first = first_sent(QueryOf(fr.endpoint), PageSize),
               !.after = fr.cursor]

\* the end of the loop: the nodes collected are aggregated and returned
Aggregate(fr) ==
    [fr EXCEPT !.pc = "done", !.outcome = "returned",
               !.result = PageResult(fr.endpoint, fr.all)]

\* an endpoint reaches its loop and requests the first page
BeginPagination(endpoint) ==
    /\ pager.pc \in {"idle", "done"}
    /\ pager' = Request([IdlePager EXCEPT !.endpoint = endpoint,
                                          !.max_pages = max_pages(endpoint)])
    /\ UNCHANGED notPageVars

\* a page arrives: its nodes are added; the loop ends if the page does not
\* report hasNextPage or if no iteration is left, else the next page is
\* requested with the page's endCursor
PageArrives(nodes, hasNextPage, endCursor) ==
    /\ pager.pc = "fetching"
    /\ LET fr == [pager EXCEPT !.all = pager.all + nodes, !.has_next = hasNextPage]
       IN  pager' = IF ~hasNextPage THEN Aggregate(fr)
                    ELSE LET next == [fr EXCEPT !.cursor = endCursor]
                         IN  IF more_iterations(next) THEN Request(next)
                             ELSE Aggregate(next)
    /\ UNCHANGED notPageVars

\* the request fails (transport failure, GraphQL errors): the exception leaves
\* the loop and the endpoint answers with an HTTP error
PageFails ==
    /\ pager.pc = "fetching"
    /\ pager' = [pager EXCEPT !.pc = "done", !.outcome = "raised",
                              !.status_code = 500]
    /\ UNCHANGED notPageVars

PageInit == pager = IdlePager

----------------------------------------------------------------------------
(* Part 8: the Linear contribution score and the headroom combination       *)

\* Linear's priority values: 0 none, 1 urgent, 2 high, 3 medium, 4 low; 5
\* stands for a value the table does not hold
Priorities == {0, 1, 2, 3, 4, 5}
\* issues of one priority in a set of issues
MaxPerPriority == 3

Plus(x, y) == Rational(x[1] * y[2] + y[1] * x[2], x[2] * y[2])
Minimum(x, y) == IF Less(y, x) THEN y ELSE x

\* weights that favour the low priorities
PriorityWeight_LowFirst(priority) ==
    CASE priority = 1 -> <<1, 5>>
      [] priority = 2 -> <<2, 5>>
      [] priority = 3 -> <<7, 10>>
      [] priority = 4 -> <<1, 1>>
      [] priority = 0 -> <<6, 5>>
      [] OTHER -> <<7, 10>>

\* PRIORITY_WEIGHTS.get(priority, 0.7)
PriorityWeight(priority) ==
    CASE priority = 1 -> <<6, 5>>
      [] priority = 2 -> <<1, 1>>
      [] priority = 3 -> <<7, 10>>
      [] priority = 4 -> <<2, 5>>
      [] priority = 0 -> <<1, 5>>
      [] OTHER -> <<7, 10>>

\* the largest average weight, MAX_LOAD, the default deadline score, the
\* weights of the three components and the dampening of the Linear score
MaxWeight == <<6, 5>>
MAX_LOAD == 15
DefaultDeadlineScore == <<3, 10>>
LoadShare == <<2, 5>>
PriorityShare == <<7, 20>>
DeadlineShare == <<1, 4>>
Dampening == <<3, 4>>
Hundred == <<100, 1>>

\* len(issues) and the sum of the weights, for the issues given as the
\* number of issues of each priority
RECURSIVE SumOver(_, _)
SumOver(f, keys) ==
    IF keys = {} THEN Zero
    ELSE LET k == CHOOSE x \in keys : TRUE
         IN  Plus(f[k], SumOver(f, keys \ {k}))
issue_count(counts) == SumOver([p \in Priorities |-> <<counts[p], 1>>], Priorities)[1]
weighted_sum(counts) ==
    SumOver([p \in Priorities |-> Times(<<counts[p], 1>>, PriorityWeight(p))], Priorities)

\* round(x, 1) for x >= 0, as the set of the values it can return: the
\* nearest tenth, and either neighbour for a value half way between two
\* tenths, where the error of the float sum, which follows the order of the
\* issues, decides
round1(x) ==
    LET tenths == (10 * x[1]) \div x[2]
        rest == Rational((10 * x[1]) % x[2], x[2])
    IN  CASE Less(rest, <<1, 2>>) -> {Rational(tenths, 10)}
          [] Less(<<1, 2>>, rest) -> {Rational(tenths + 1, 10)}
          [] OTHER -> {Rational(tenths, 10), Rational(tenths + 1, 10)}

priority_score(counts) ==
    LET avg_priority_weight ==
            Rational(weighted_sum(counts)[1],
                     weighted_sum(counts)[2] * issue_count(counts))
    IN  Minimum(Rational(avg_priority_weight[1] * MaxWeight[2],
                         avg_priority_weight[2] * MaxWeight[1]), One)

issue_load_score(counts) == Minimum(Rational(issue_count(counts), MAX_LOAD), One)

\* a score that leaves the dampening out
linear_score_Undampened(counts) ==
    LET combined == Plus(Plus(Times(LoadShare, issue_load_score(counts)),
                              Times(PriorityShare, priority_score(counts))),
                         Times(DeadlineShare, DefaultDeadlineScore))
    IN  Maximum(Zero, Minimum(Hundred, Times(combined, Hundred)))

\* max(0.0, min(100.0, combined * 100 * 0.75))
linear_score(counts) ==
    LET combined == Plus(Plus(Times(LoadShare, issue_load_score(counts)),
                              Times(PriorityShare, priority_score(counts))),
                         Times(DeadlineShare, DefaultDeadlineScore))
    IN  Maximum(Zero, Minimum(Hundred, Times(Times(combined, Hundred), Dampening)))

\* _calculate_linear_ocb_contribution(issues), as the set of the values it
\* can return: 0.0 for no issues, else the rounded score
calculate_linear_ocb_contribution(absent, counts) ==
    IF absent \/ issue_count(counts) = 0 THEN {Zero}
    ELSE round1(linear_score(counts))

\* a combination that adds the contribution to the base and caps the sum
headroom_Additive(original_ocb, linear_ocb) ==
    Minimum(Hundred, Plus(original_ocb, linear_ocb))

\* final_ocb = original_ocb + (100.0 - original_ocb) * (linear_ocb / 100.0)
headroom(original_ocb, linear_ocb) ==
    Plus(original_ocb,
         Times(Rational(Hundred[1] * original_ocb[2] - original_ocb[1], original_ocb[2]),
               Rational(linear_ocb[1], linear_ocb[2] * Hundred[1])))

\* the sets of issues, each as the number of its issues of each priority
IssueSets == [Priorities -> 0..MaxPerPriority]
NoIssues == [p \in Priorities |-> 0]
\* base scores and contributions, in tenths
ScoreTenths == {0, 5, 300, 500, 650, 900, 995, 1000}

NoScoreCall ==
    [called |-> FALSE, op |-> "none", absent |-> FALSE, counts |-> NoIssues,
     original_ocb |-> Zero, linear_ocb |-> Zero, result |-> Zero]

\* the call of _calculate_linear_ocb_contribution on the issues
CalculateContribution ==
    /\ ~scoring.called
    /\ scoring.op = "contribution"
    /\ \E r \in calculate_linear_ocb_contribution(scoring.absent, scoring.counts) :
           scoring' = [scoring EXCEPT !.called = TRUE, !.result = r]
    /\ UNCHANGED notScoreVars

\* the headroom combination of a base score and a contribution
CombineHeadroom ==
    /\ ~scoring.called
    /\ scoring.op = "headroom"
    /\ scoring' = [scoring EXCEPT
           !.called = TRUE,
           !.result = headroom(scoring.original_ocb, scoring.linear_ocb)]
    /\ UNCHANGED notScoreVars

ScoreInit == scoring = NoScoreCall

----------------------------------------------------------------------------
(* Part 9: the day-scoped cache of on-call emails                           *)

\* time is counted in ticks: the fractions of a second the clock resolves,
\* the seconds of a day and the days the clock runs through
TicksPerSecond == 2
DaySeconds == 2
MaxDays == 2
DayTicks == DaySeconds * TicksPerSecond
Horizon == MaxDays * DayTicks

Integrations == {"int-1", "int-2"}
EmailSets == {{}, {"a@x.co"}}

\* datetime.utcnow().strftime("%Y-%m-%d")
today(now) == now \div DayTicks

\* f"oncall:{integration_id}:{today}"
get_cache_key(integration_id, now) == <<"oncall", integration_id, today(now)>>

\* int((midnight - now).total_seconds())
get_seconds_until_midnight(now) ==
    ((today(now) + 1) * DayTicks - now) \div TicksPerSecond

\* the entries Redis still holds at an instant
Live(entries, now) == {e \in entries : e.expires_at > now}

\* client.get(cache_key)
Cached(cache_key) == {e \in redis : e.key = cache_key}

NoCacheCall ==
    [called |-> FALSE, op |-> "none", pc |-> "idle", integration_id |-> "none",
     now |-> 0, cache_key |-> <<"oncall", "none", 0>>, emails |-> {}, hit |-> FALSE,
     cached_at |-> 0, ok |-> FALSE]

\* get_cached_oncall_emails(integration_id): the emails of the entry under
\* today's key, None without Redis or without an entry
GetCachedOncallEmails(integration_id, client) ==
    /\ cacheRead.pc \in {"idle", "done"}
    /\ LET cache_key == get_cache_key(integration_id, cacheNow)
           call == [NoCacheCall EXCEPT !.called = TRUE, !.op = "get", !.pc = "done",
                                       !.integration_id = integration_id,
                                       !.now = cacheNow, !.cache_key = cache_key]
       IN  IF client /\ Cached(cache_key) # {}
           THEN LET cached_data == CHOOSE e \in Cached(cache_key) : TRUE
                IN  cacheRead' = [call EXCEPT !.hit = TRUE,
                                              !.emails = cached_data.emails,
                                              !.cached_at = cached_data.cached_at]
           ELSE cacheRead' = call
    /\ UNCHANGED <<redis, cacheNow>>
    /\ UNCHANGED notCacheVars

\* set_cached_oncall_emails(integration_id, emails) up to the cache key:
\* False without Redis
BeginSetCachedOncallEmails(integration_id, emails, client) ==
    /\ cacheRead.pc \in {"idle", "done"}
    /\ cacheRead' = [NoCacheCall EXCEPT
           !.called = TRUE, !.op = "set",
           !.pc = IF client THEN "keyed" ELSE "done",
           !.integration_id = integration_id, !.now = cacheNow,
           !.cache_key = get_cache_key(integration_id, cacheNow),
           !.emails = emails]
    /\ UNCHANGED <<redis, cacheNow>>
    /\ UNCHANGED notCacheVars

\* the rest of set_cached_oncall_emails: the time to live from a second
\* reading of the clock, and client.setex, which Redis refuses for a time to
\* live of 0
SetexCachedOncallEmails ==
    /\ cacheRead.pc = "keyed"
    /\ LET ttl == get_seconds_until_midnight(cacheNow)
           data == [key |-> cacheRead.cache_key, emails |-> cacheRead.emails,
                    cached_at |-> cacheNow,
                    expires_at |-> cacheNow + ttl * TicksPerSecond]
       IN  IF ttl > 0
           THEN /\ redis' = (redis \ Cached(cacheRead.cache_key)) \cup {data}
                /\ cacheRead' = [cacheRead EXCEPT !.pc = "done", !.ok = TRUE,
                                                  !.cached_at = cacheNow]
           ELSE /\ redis' = redis
                /\ cacheRead' = [cacheRead EXCEPT !.pc = "done"]
    /\ UNCHANGED cacheNow
    /\ UNCHANGED notCacheVars

\* the clock advances and Redis drops the entries whose time to live is over;
\* a call between its two readings of the clock sees at most the first
\* instant of the next day
ClockTick ==
    /\ cacheNow < Horizon
    /\ cacheRead.pc = "keyed" => cacheRead.cache_key[3] = today(cacheNow)
    /\ cacheNow' = cacheNow + 1
    /\ redis' = Live(redis, cacheNow + 1)
    /\ UNCHANGED cacheRead
    /\ UNCHANGED notCacheVars

CacheInit ==
    /\ redis = {}
    /\ cacheNow = 0
    /\ cacheRead = NoCacheCall

----------------------------------------------------------------------------
(* Part 11: the workload preview of test_linear_integration                 *)

\* issues fetched in one call
MaxIssues == 2
\* issue.assignee.id: None for an issue without assignee (the key is missing
\* or null), the empty string, or a user
AssigneeIds == {None, "", "user-1", "user-2"}
\* issue.priority: Linear's 0 to 4, and a value outside them
IssuePriorities == {0, 1, 4, 7}
Issues == [assignee_id : AssigneeIds, priority : IssuePriorities]

\* the lists of at most n issues
IssueLists(n) == UNION {[1..k -> Issues] : k \in 0..n}

\* _priority_to_name
priority_to_name(priority) ==
    CASE priority = 0 -> "No priority"
      [] priority = 1 -> "Urgent"
      [] priority = 2 -> "High"
      [] priority = 3 -> "Medium"
      [] priority = 4 -> "Low"
      [] OTHER -> "Unknown"

\* assignee_id = assignee.get("id") or "unassigned"
assignee_key(issue) ==
    IF issue.assignee_id = None \/ issue.assignee_id = "" THEN "unassigned"
    ELSE issue.assignee_id

\* the entry of an assignee seen for the first time
NewEntry(assignee_id) ==
    [assignee_id |-> assignee_id, count |-> 0, priorities |-> <<>>, tickets |-> <<>>]

\* a loop body that skips the issues without assignee
add_issue_SkipsUnassigned(per_assignee, issue) ==
    IF assignee_key(issue) = "unassigned" THEN per_assignee
    ELSE LET key == assignee_key(issue)
             name == priority_to_name(issue.priority)
             entry == IF key \in DOMAIN per_assignee THEN per_assignee[key]
                      ELSE NewEntry(key)
         IN  (key :> [entry EXCEPT !.count = entry.count + 1]) @@ per_assignee

\* the body of `for issue in all_issues`: the assignee's entry is created if
\* it is missing, its count and the count of the priority name are raised by
\* one and a ticket is appended
add_issue(per_assignee, issue) ==
    LET key == assignee_key(issue)
        name == priority_to_name(issue.priority)
        entry == IF key \in DOMAIN per_assignee THEN per_assignee[key]
                 ELSE NewEntry(key)
        seen == IF name \in DOMAIN entry.priorities THEN entry.priorities[name]
                ELSE 0
    IN  (key :> [entry EXCEPT
                    !.count = entry.count + 1,
                    !.priorities = (name :> (seen + 1)) @@ entry.priorities,
                    !.tickets = Append(entry.tickets,
                                       [priority |-> issue.priority,
                                        priority_name |-> name])])
        @@ per_assignee

\* the loop over all_issues, from an empty per_assignee
RECURSIVE aggregate_by_assignee(_)
aggregate_by_assignee(all_issues) ==
    IF all_issues = <<>> THEN <<>>
    ELSE add_issue(aggregate_by_assignee(SubSeq(all_issues, 1, Len(all_issues) - 1)),
                   all_issues[Len(all_issues)])

\* the workload_preview of the response
workload_preview(all_issues) ==
    LET per_assignee == aggregate_by_assignee(all_issues)
    IN  [total_issues |-> Len(all_issues),
         assignee_count |-> Cardinality(DOMAIN per_assignee),
         per_assignee |-> per_assignee]

NoPreview ==
    [called |-> FALSE, all_issues |-> <<>>, workload_preview |-> workload_preview(<<>>)]

\* test_linear_integration from the end of its pagination loop to its return
TestLinearIntegration ==
    /\ ~preview.called
    /\ preview' = [preview EXCEPT
           !.called = TRUE,
           !.workload_preview = workload_preview(preview.all_issues)]
    /\ UNCHANGED notPreviewVars

PreviewInit == preview = NoPreview

LaterInit == PageInit /\ ScoreInit /\ CacheInit /\ PreviewInit


----------------------------------------------------------------------------
(* Part 10: the lifecycle of the mappings: auto_map_users,                  *)
(* remove_linear_mapping and disconnect_linear                              *)

\* a handler that ended, with the key it worked on
Ended(st, user_id, source_identifier) ==
    [IdleFrame(st) EXCEPT !.user_id = user_id,
                          !.source_platform = "rootly",
                          !.source_identifier = source_identifier,
                          !.target_platform = "linear"]

\* auto_map_users, for one team member: create_mapping with the Linear user
\* the matcher found; for a member without a match only the result list and
\* the counters change
AutoMapUsers(p, team_email, match_result) ==
    /\ \A q \in Procs : frame[q].pc = "idle"
    /\ IF match_result # None
       THEN Begin(p, CurrentUser(p), "rootly", team_email, "linear", match_result)
       ELSE /\ calls < MaxCalls
            /\ calls' = calls + 1
            /\ frame' = [frame EXCEPT ![p] = Ended("not_found", CurrentUser(p), team_email)]
            /\ lastReturned' = IF lastReturned = p THEN None ELSE lastReturned
            /\ UNCHANGED <<userMappings, userCorrelations, nextMappingId,
                           nextCorrelationId>>
    /\ UNCHANGED before
    /\ UNCHANGED notMapVars

\* remove_linear_mapping: corr.linear_user_id = None on the row found by
\* organization and email, when the user has an organization
ClearedCorrelations(user_id, organization_id, email, corr) ==
    IF organization_id = NoOrganization THEN userCorrelations
    ELSE {IF c \in corr THEN [c EXCEPT !.linear_user_id = None] ELSE c :
             c \in userCorrelations}

\* remove_linear_mapping: delete the first UserMapping of (user, email, linear),
\* clear the Linear id of the first UserCorrelation of (organization, email),
\* and commit once; any exception rolls back and answers 500
RemoveLinearMapping(p, email, fails) ==
    /\ \A q \in Procs : frame[q].pc = "idle"
    /\ calls < MaxCalls
    /\ calls' = calls + 1
    /\ LET user_id == CurrentUser(p)
           organization_id == OrganizationOf(user_id)
       IN  \E mapping \in First({m \in userMappings :
                                    /\ m.user_id = user_id
                                    /\ m.source_identifier = email
                                    /\ m.target_platform = "linear"}),
              corr \in First({c \in userCorrelations :
                                 /\ c.organization_id = organization_id
                                 /\ c.email = email}) :
              IF fails
              THEN /\ frame' = [frame EXCEPT ![p] = Ended("raised", user_id, email)]
                   /\ UNCHANGED <<userMappings, userCorrelations>>
              ELSE /\ userMappings' = userMappings \ mapping
                   /\ userCorrelations' =
                         ClearedCorrelations(user_id, organization_id, email, corr)
                   /\ frame' = [frame EXCEPT ![p] = Ended("removed", user_id, email)]
    /\ UNCHANGED <<nextMappingId, nextCorrelationId, before, lastReturned>>
    /\ UNCHANGED notMapVars

\* the active users the provider lists: the viewer, a second user, and a
\* user without email
LinearUser(id, email) == [id |-> id, email |-> email]
LinearUserLists ==
    {<<LinearUser(ViewerId, ViewerEmail)>>,
     <<LinearUser("ext-2", None)>>,
     <<LinearUser(ViewerId, ViewerEmail), LinearUser("ext-2", "y@co.com")>>}

\* the body of `for linear_user in active_users` on the session's view of
\* user_correlations: a user without email is skipped; the first correlation
\* of (organization, email) gets the Linear id if it has none and is skipped
\* if it has one; without a correlation one is added for the current user
sync_linear_user(acc, linear_user, user_id, organization_id) ==
    IF linear_user.email = None THEN acc
    ELSE LET found == {c \in acc.rows : /\ c.organization_id = organization_id
                                        /\ c.email = linear_user.email}
         IN  IF found # {}
             THEN LET corr == CHOOSE c \in found : \A o \in found : c.id <= o.id
                  IN  IF corr.linear_user_id = None
                      THEN [acc EXCEPT !.rows =
                               {IF c = corr
                                THEN [c EXCEPT !.linear_user_id = linear_user.id]
                                ELSE c : c \in acc.rows}]
                      ELSE acc
             ELSE [rows |-> acc.rows \cup
                      {[id |-> acc.next_id, user_id |-> user_id,
                        organization_id |-> organization_id,
                        email |-> linear_user.email,
                        linear_user_id |-> linear_user.id,
                        slack_user_id |-> None]},
                   next_id |-> acc.next_id + 1]

RECURSIVE sync_linear_users(_, _, _, _)
sync_linear_users(acc, active_users, user_id, organization_id) ==
    IF active_users = <<>> THEN acc
    ELSE sync_linear_users(
            sync_linear_user(acc, Head(active_users), user_id, organization_id),
            Tail(active_users), user_id, organization_id)

\* sync_linear_users: 404 without a connected row; else the active users the
\* provider lists are written to user_correlations and committed once
SyncLinearUsers(p, user_id, active_users) ==
    /\ AuthBegin(p)
    /\ \E found \in First(IntegrationsOf(user_id)) :
          LET fr == [IdleAuthFrame EXCEPT !.op = "sync-users", !.user_id = user_id]
              synced == sync_linear_users(
                           [rows |-> userCorrelations, next_id |-> nextCorrelationId],
                           active_users, user_id, OrganizationOf(user_id))
          IN  IF not_connected(found)
              THEN /\ authFrame' = [authFrame EXCEPT ![p] = AuthRaised(fr, 404)]
                   /\ UNCHANGED <<userCorrelations, nextCorrelationId>>
              ELSE /\ userCorrelations' = synced.rows
                   /\ nextCorrelationId' = synced.next_id
                   /\ authFrame' = [authFrame EXCEPT ![p] =
                         AuthReturned([fr EXCEPT !.response = "token"], NoResult)]
    /\ UNCHANGED <<linearIntegrations, nextIntegrationId, workspaceMappings,
                   grants, exchanged, pkceIssued, secretChanged>>
    /\ UNCHANGED notAuthVars

\* disconnect_linear, called by a user who can hold an integration
DisconnectAccount(p) ==
    /\ CurrentUser(p) \in AuthUsers
    /\ DisconnectLinear(p, CurrentUser(p))

----------------------------------------------------------------------------
(* Specifications                                                           *)

MapInit ==
    /\ userMappings = {}
    /\ userCorrelations = {}
    /\ nextMappingId = 1
    /\ nextCorrelationId = 1
    /\ frame = [p \in Procs |-> IdleFrame("none")]
    /\ before = [by |-> None, mappings |-> {}, correlations |-> {}]
    /\ lastReturned = None
    /\ calls = 0

\* a connected integration whose tokens the OAuth callback stored at time 0
Connected ==
    [access_token |-> encrypt_token(AccessToken(0)),
     refresh_token |-> encrypt_token(RefreshToken(0)),
     token_expires_at |-> DefaultExpiresIn]

TokenInit ==
    /\ integration = Connected
    /\ clock = 0
    /\ tokenFrame = [p \in Procs |-> IdleTokenFrame]
    /\ refreshCalls = 0
    /\ provider = RefreshToken(0)

Init ==
    /\ MapInit /\ FreshInit /\ TokenInit /\ AuthInit /\ UrlInit /\ MatchInit
    /\ LaterInit

\* concurrent create_mapping requests
Next ==
    \/ \E p \in Procs : BeginConcurrent(p)
    \/ \E p \in Procs : Step(p)

Spec == Init /\ [][Next]_vars

\* create_mapping, one request at a time
NextSeq ==
    \/ \E p \in Procs : BeginSequential(p)
    \/ \E p \in Procs : Step(p)

SpecSeq == Init /\ [][NextSeq]_vars

\* the freshness policy: rows are recorded, time passes, the cache is consulted
NextFresh ==
    \/ \E team_emails \in TeamEmailLists, user_id \in Users, has_db \in BOOLEAN :
          GetSmartLinearData(team_emails, user_id, has_db)
    \/ ReturnResults
    \/ \E user_id \in Users, email \in Emails, ok \in BOOLEAN, tid \in TargetIds :
          RecordMapping(user_id, email, ok, tid)
    \/ Tick

SpecFresh == Init /\ [][NextFresh]_vars

\* the credential lifecycle of an integration as it was stored at time 0 (an
\* API key has neither refresh token nor expiry; the tokens of a row are
\* written together under one key, and none of them decrypts once
\* JWT_SECRET_KEY has changed)
InitToken ==
    /\ MapInit
    /\ FreshInit
    /\ AuthInit
    /\ UrlInit
    /\ MatchInit
    /\ LaterInit
    /\ \E key_changed \in BOOLEAN, has_refresh_token \in BOOLEAN,
          token_expires_at \in {NoExpiry, DefaultExpiresIn} :
          integration =
              [access_token |-> IF key_changed THEN Corrupt
                                ELSE encrypt_token(AccessToken(0)),
               refresh_token |-> IF ~has_refresh_token THEN NoToken
                                 ELSE IF key_changed THEN Corrupt
                                 ELSE encrypt_token(RefreshToken(0)),
               token_expires_at |-> token_expires_at]
    /\ clock = 0
    /\ tokenFrame = [p \in Procs |-> IdleTokenFrame]
    /\ refreshCalls = 0
    /\ provider = RefreshToken(0)

NextToken ==
    \/ \E p \in Procs : GetValidToken(p)
    \/ \E p \in Procs, rotates \in BOOLEAN : RefreshSucceeds(p, rotates)
    \/ \E p \in Procs : RefreshFails(p)
    \/ TokenTick

SpecToken == InitToken /\ [][NextToken]_vars

\* token requests against a provider that rotates refresh tokens
NextRotate ==
    \/ \E p \in Procs : GetValidToken(p)
    \/ \E p \in Procs : RotatingProviderAccepts(p)
    \/ \E p \in Procs : RotatingProviderRejects(p)
    \/ TokenTick

SpecRotate == InitToken /\ [][NextRotate]_vars

\* the OAuth flow: requests of one user, the provider and the user's browser
NextAuth ==
    \/ \E p \in Procs, user_id \in AuthUsers, configured \in BOOLEAN :
          ConnectLinear(p, user_id, configured)
    \/ \E code \in Codes, n \in 0..MaxConnects : Authorize(code, n)
    \/ \E p \in Procs, user_id \in AuthUsers, code \in Codes, state \in CallbackStates :
          ProcessCallback(p, user_id, code, state)
    \/ \E p \in Procs, with_refresh \in BOOLEAN : ExchangeCode(p, with_refresh)
    \/ \E p \in Procs : ExchangeFails(p)
    \/ \E p \in Procs, organization \in {"ok", "error"}, viewer_ok \in BOOLEAN,
          commit_ok \in BOOLEAN :
          StoreTokens(p, organization, viewer_ok, commit_ok)
    \/ \E p \in Procs, user_id \in AuthUsers : GetLinearStatus(p, user_id)
    \/ \E p \in Procs, user_id \in AuthUsers : ListLinearTeams(p, user_id)
    \/ \E p \in Procs, user_id \in AuthUsers : DisconnectLinear(p, user_id)
    \/ ChangeSecret

SpecAuth == Init /\ [][NextAuth]_vars

\* get_authorization_url under every configuration of the provider object
InitUrl ==
    /\ MapInit
    /\ FreshInit
    /\ TokenInit
    /\ AuthInit
    /\ MatchInit
    /\ LaterInit
    /\ oauth \in [client_id : ClientIds, redirect_uri : RedirectUris]
    /\ authUrl = NoUrlCall

NextUrl ==
    \E state \in StateArgs, code_challenge \in ChallengeArgs :
        GetAuthorizationUrl(state, code_challenge)

SpecUrl == InitUrl /\ [][NextUrl]_vars

\* the matcher alone, on each team email or team name and each list of
\* Linear users
InitMatch ==
    /\ MapInit
    /\ FreshInit
    /\ TokenInit
    /\ AuthInit
    /\ UrlInit
    /\ LaterInit
    /\ \/ \E team_email \in TeamEmails, linear_users \in CandidateLists :
             matched = [NoMatchCall EXCEPT !.op = "email", !.team = team_email,
                                           !.linear_users = linear_users]
       \/ \E team_name \in TeamNames, linear_users \in CandidateLists :
             matched = [NoMatchCall EXCEPT !.op = "name", !.team = team_name,
                                           !.linear_users = linear_users]

NextMatch ==
    \/ MatchEmailToLinear
    \/ MatchNameToLinear

SpecMatch == InitMatch /\ [][NextMatch]_vars

\* one endpoint at a time pages through the provider, which answers each
\* request with a page or with a failure
NextPages ==
    \/ \E endpoint \in Endpoints : BeginPagination(endpoint)
    \/ \E nodes \in 0..MaxNodes, hasNextPage \in BOOLEAN, endCursor \in {None, "cursor"} :
          PageArrives(nodes, hasNextPage, endCursor)
    \/ PageFails

SpecPages == Init /\ [][NextPages]_vars

\* every request to the provider is answered: httpx gives up after its timeout
SpecPagesFair == SpecPages /\ WF_vars(NextPages)

\* the workload preview, on each list of issues
InitPreview ==
    /\ MapInit /\ FreshInit /\ TokenInit /\ AuthInit /\ UrlInit /\ MatchInit
    /\ PageInit /\ ScoreInit /\ CacheInit
    /\ \E all_issues \in IssueLists(MaxIssues) :
          preview = [NoPreview EXCEPT !.all_issues = all_issues]

NextPreview == TestLinearIntegration

SpecPreview == InitPreview /\ [][NextPreview]_vars

\* the score computations, on each set of issues and on each pair of a base
\* score and a contribution
InitScore ==
    /\ MapInit /\ FreshInit /\ TokenInit /\ AuthInit /\ UrlInit /\ MatchInit
    /\ PageInit /\ CacheInit /\ PreviewInit
    /\ \/ \E counts \in IssueSets :
             scoring = [NoScoreCall EXCEPT !.op = "contribution", !.counts = counts]
       \/ scoring = [NoScoreCall EXCEPT !.op = "contribution", !.absent = TRUE]
       \/ \E b \in ScoreTenths, c \in ScoreTenths :
             scoring = [NoScoreCall EXCEPT !.op = "headroom",
                                           !.original_ocb = Rational(b, 10),
                                           !.linear_ocb = Rational(c, 10)]

NextScore ==
    \/ CalculateContribution
    \/ CombineHeadroom

SpecScore == InitScore /\ [][NextScore]_vars

\* reads and writes of the cache while the clock runs
NextCache ==
    \/ \E integration_id \in Integrations, client \in BOOLEAN :
           GetCachedOncallEmails(integration_id, client)
    \/ \E integration_id \in Integrations, emails \in EmailSets, client \in BOOLEAN :
           BeginSetCachedOncallEmails(integration_id, emails, client)
    \/ SetexCachedOncallEmails
    \/ ClockTick

SpecCache == Init /\ [][NextCache]_vars

\* the mappings of users of whom one may have connected Linear: the rows are
\* those the OAuth callback commits for user 1, with or without the
\* correlation of the viewer
InitLifecycle ==
    /\ FreshInit /\ TokenInit /\ UrlInit /\ MatchInit /\ LaterInit
    /\ userMappings = {}
    /\ nextMappingId = 1
    /\ frame = [p \in Procs |-> IdleFrame("none")]
    /\ before = [by |-> None, mappings |-> {}, correlations |-> {}]
    /\ lastReturned = None
    /\ calls = 0
    /\ authFrame = [p \in Procs |-> IdleAuthFrame]
    /\ grants = [code \in Codes |-> NoGrant]
    /\ exchanged = {}
    /\ pkceIssued = 0
    /\ secretChanged = FALSE
    /\ authCalls = 0
    /\ \E connected \in BOOLEAN, viewer_ok \in BOOLEAN :
          /\ linearIntegrations =
                IF connected
                THEN {[id |-> 1, user_id |-> 1, workspace_id |-> WorkspaceId,
                       access_token |-> encrypt_token(AccessToken(0)),
                       refresh_token |-> encrypt_token(RefreshToken(0)),
                       token_expires_at |-> DefaultExpiresIn,
                       pkce_code_verifier |-> NoToken]}
                ELSE {}
          /\ nextIntegrationId = IF connected THEN 2 ELSE 1
          /\ workspaceMappings =
                IF connected
                THEN {[workspace_id |-> WorkspaceId,
                       organization_id |-> OrganizationOf(1), owner_user_id |-> 1]}
                ELSE {}
          /\ userCorrelations =
                IF connected /\ viewer_ok
                THEN {[id |-> 1, user_id |-> 1, organization_id |-> OrganizationOf(1),
                       email |-> ViewerEmail, linear_user_id |-> ViewerId,
                       slack_user_id |-> None]}
                ELSE {}
          /\ nextCorrelationId = IF connected /\ viewer_ok THEN 2 ELSE 1

\* team members are auto-mapped and unmapped, and the account is disconnected
NextLifecycle ==
    \/ \E p \in Procs, team_email \in SourceIds, match_result \in TargetIds \cup {None} :
          AutoMapUsers(p, team_email, match_result)
    \/ \E p \in Procs : Step(p)
    \/ \E p \in Procs, email \in SourceIds, fails \in BOOLEAN :
          RemoveLinearMapping(p, email, fails)
    \/ \E p \in Procs : DisconnectAccount(p)

SpecLifecycle == InitLifecycle /\ [][NextLifecycle]_vars

\* requests issued in one behaviour of the writers of the Linear id
MaxOwnerCalls == 3

\* a request can be issued: none is in flight
Quiet ==
    /\ \A q \in Procs : frame[q].pc = "idle"
    /\ \A q \in Procs : authFrame[q].pc \in {"idle", "done"}
    /\ calls + authCalls < MaxOwnerCalls

\* POST /mappings for a Linear account: create_mapping
AssignLinear(p) ==
    /\ Quiet
    /\ \E sid \in SourceIds, tid \in TargetIds :
          Begin(p, CurrentUser(p), "rootly", sid, "linear", tid)
    /\ before' = [by |-> p, mappings |-> userMappings, correlations |-> userCorrelations]
    /\ UNCHANGED notMapVars

\* POST /connect
StartAuthFlow(p) ==
    /\ Quiet
    /\ CurrentUser(p) \in AuthUsers
    /\ ConnectLinear(p, CurrentUser(p), TRUE)

\* the user approves the authorization request of the last connect_linear
ApproveLast(code) ==
    /\ pkceIssued > 0
    /\ \A q \in Procs : authFrame[q].pc \in {"idle", "done"}
    /\ Authorize(code, pkceIssued)

\* POST /callback with the code and the state of the last connect_linear
CompleteAuthFlow(p, code) ==
    /\ Quiet
    /\ CurrentUser(p) \in AuthUsers
    /\ grants[code].status = "issued"
    /\ ProcessCallback(p, CurrentUser(p), code, StateToken(pkceIssued))

\* POST /sync-users
SyncUsers(p, active_users) ==
    /\ Quiet
    /\ CurrentUser(p) \in AuthUsers
    /\ SyncLinearUsers(p, CurrentUser(p), active_users)

\* DELETE /mapping/{email}
Unmap(p, email) ==
    /\ Quiet
    /\ RemoveLinearMapping(p, email, FALSE)

\* the writers of the Linear id of user_correlations, one request at a time
\* and each by the user of its session: create_mapping, the OAuth flow up to
\* its callback, sync_linear_users and remove_linear_mapping
NextOwners ==
    \/ \E p \in Procs : AssignLinear(p)
    \/ \E p \in Procs : Step(p)
    \/ \E p \in Procs : StartAuthFlow(p)
    \/ \E code \in Codes : ApproveLast(code)
    \/ \E p \in Procs, code \in Codes : CompleteAuthFlow(p, code)
    \/ \E p \in Procs : ExchangeCode(p, TRUE)
    \/ \E p \in Procs, viewer_ok \in BOOLEAN : StoreTokens(p, "ok", viewer_ok, TRUE)
    \/ \E p \in Procs, active_users \in LinearUserLists : SyncUsers(p, active_users)
    \/ \E p \in Procs, email \in SourceIds : Unmap(p, email)

SpecOwners == Init /\ [][NextOwners]_vars

----------------------------------------------------------------------------
(* Properties of create_mapping                                             *)

AllIdle == \A p \in Procs : frame[p].pc = "idle"

\* the users holding (target platform, target identifier) in UserMapping
MappingOwners(target_platform, target_identifier) ==
    {m.user_id : m \in {r \in userMappings :
                          /\ r.target_platform = target_platform
                          /\ r.target_identifier = target_identifier}}

\* the users holding the identifier in the platform's UserCorrelation field
CorrelationOwners(target_platform, target_identifier) ==
    {c.user_id : c \in {r \in userCorrelations :
                          PlatformField(r, target_platform) = target_identifier}}

C2_AllOrNothing ==
    \A p \in Procs :
        (before.by = p /\ frame[p].status \in {"running", "raised"})
            => Committed = [mappings |-> before.mappings,
                            correlations |-> before.correlations]

\* C3 as stated: in every committed state, a UserMapping of an owner for a
\* source identifier and platform holding t is paired with the owner's
\* UserCorrelation for that source identifier holding t in the platform field.
C3_MappingCorrelationPaired ==
    \A m \in userMappings :
        \E c \in userCorrelations :
            /\ c.user_id = m.user_id
            /\ c.email = m.source_identifier
            /\ PlatformField(c, m.target_platform) = m.target_identifier

\* C4 as stated: once two create_mapping calls of different owners for the same
\* Linear user id have both returned, exactly one owner, the one that returned
\* last, holds the id in UserMapping and in UserCorrelation.
C4_LastCommitWins ==
    \A p \in Procs, q \in Procs :
        ( /\ p # q
          /\ AllIdle
          /\ frame[p].status = "returned" /\ frame[q].status = "returned"
          /\ frame[p].target_platform = "linear" /\ frame[q].target_platform = "linear"
          /\ frame[p].target_identifier = frame[q].target_identifier
          /\ frame[p].user_id # frame[q].user_id
          /\ lastReturned = q )
        => /\ MappingOwners("linear", frame[q].target_identifier) = {frame[q].user_id}
           /\ CorrelationOwners("linear", frame[q].target_identifier) = {frame[q].user_id}

----------------------------------------------------------------------------
(* Properties of the freshness and retry policy                             *)

\* the five states of the freshness policy, by the age in seconds of the
\* most recent record (the empty set: no record)
FreshnessState(latest, now) ==
    IF latest = {} THEN "MISSING"
    ELSE LET m == CHOOSE r \in latest : TRUE
             age == now - m.created_at
         IN  IF m.mapping_successful
             THEN IF age < 7 * SecondsPerDay THEN "FRESH" ELSE "STALE"
             ELSE IF age < 24 * SecondsPerHour THEN "FAILED_RECENT"
                  ELSE "FAILED_RETRYABLE"

\* the state a branch of Phase 1 stands for
StateOfStatus(status) ==
    CASE status = "HIT" -> "FRESH"
      [] status = "STALE" -> "STALE"
      [] status = "SKIP" -> "FAILED_RECENT"
      [] status = "RETRY" -> "FAILED_RETRYABLE"
      [] OTHER -> "MISSING"

\* a record of the given outcome created at time 0
RecordAtZero(ok) ==
    {[user_id |-> 1, source_identifier |-> "x@co.com", target_platform |-> "linear",
      mapping_successful |-> ok, target_identifier |-> IF ok THEN "ext-1" ELSE None,
      created_at |-> 0]}

\* the rows of integration_mappings the service sees for the i-th email of the call
VisibleRows(i) ==
    IF ~smart.has_db THEN {}
    ELSE {m \in integrationMappings :
             /\ m.user_id = smart.user_id
             /\ m.source_identifier = smart.team_emails[i]
             /\ m.target_platform = "linear"}

Scheduled(i) ==
    \E k \in DOMAIN smart.acc.emails_needing_mapping :
        smart.acc.emails_needing_mapping[k] = smart.team_emails[i]

Served(i) == smart.team_emails[i] \in DOMAIN smart.acc.results

C6_StaleServedAndScheduled ==
    smart.called =>
        \A i \in DOMAIN smart.team_emails :
            FreshnessState(smart.cached[i], utcnow) = "STALE"
                => /\ Served(i)
                   /\ \E m \in smart.cached[i] :
                         smart.acc.results[smart.team_emails[i]] = m.target_identifier
                   /\ Scheduled(i)

\* C6 amended: for a STALE mapping get_smart_linear_data schedules the source
\* identifier for a re-match and does not serve the stored target identifier:
\* its result has no entry for that source identifier.
C6_StaleScheduledNotServed ==
    smart.called =>
        \A i \in DOMAIN smart.team_emails :
            FreshnessState(smart.cached[i], utcnow) = "STALE"
                => Scheduled(i) /\ ~Served(i)

\* C6 witness: a call has met a successful mapping exactly 7 days old.
C6_Witness ==
    /\ smart.called
    /\ \E i \in DOMAIN smart.team_emails :
          \E m \in smart.cached[i] :
              /\ m.mapping_successful
              /\ utcnow - m.created_at = 7 * SecondsPerDay
              /\ Scheduled(i)

\* C7: for a FRESH mapping get_smart_linear_data returns the stored target
\* identifier for the source identifier and does not schedule a new match.
C7_FreshServedNotScheduled ==
    smart.called =>
        \A i \in DOMAIN smart.team_emails :
            FreshnessState(smart.cached[i], utcnow) = "FRESH"
                => /\ Served(i)
                   /\ \E m \in smart.cached[i] :
                         smart.acc.results[smart.team_emails[i]] = m.target_identifier
                   /\ ~Scheduled(i)

\* C7 witness: a call has served ext-2 from a successful mapping 7 d - 1 s old
\* although an older mapping of the same key holds ext-1.
C7_Witness ==
    /\ smart.called
    /\ \E i \in DOMAIN smart.team_emails :
          /\ \E m \in smart.cached[i] :
                /\ m.mapping_successful
                /\ m.target_identifier = "ext-2"
                /\ utcnow - m.created_at = 7 * SecondsPerDay - 1
          /\ \E o \in VisibleRows(i) : o.created_at = 0 /\ o.target_identifier = "ext-1"
          /\ Served(i)
          /\ smart.acc.results[smart.team_emails[i]] = "ext-2"

\* the policy state of a single record at time `now`, as Phase 1 decides it
RecordState(m, now) == StateOfStatus(CacheStatus({m}, now))

----------------------------------------------------------------------------
(* Properties of _get_valid_token                                           *)

\* a _get_valid_token call has evaluated its guard
Started(p) == tokenFrame[p].pc # "idle"

\* minutes between the clock and expiresAt when the call read them
Remaining(p) == tokenFrame[p].seen.token_expires_at - tokenFrame[p].seen.now_utc

HasExpiry(p) == tokenFrame[p].seen.token_expires_at # NoExpiry

\* the record stored a refresh token that decrypts when the call read it
HasUsableRefreshToken(p) ==
    /\ tokenFrame[p].seen.refresh_token # NoToken
    /\ CanDecrypt(tokenFrame[p].seen.refresh_token)

\* C9 as stated: with expiresAt 90 minutes in the future (skew 60 minutes)
\* _get_valid_token triggers a refresh call; with expiresAt 2 hours in the
\* future it does not.
C9_RefreshAt90Minutes ==
    \A p \in Procs :
        (Started(p) /\ HasExpiry(p) /\ HasUsableRefreshToken(p))
            => /\ Remaining(p) = 90 => tokenFrame[p].called
               /\ Remaining(p) = 120 => ~tokenFrame[p].called

\* C9 amended: with expiresAt 90 minutes in the future (skew 60 minutes)
\* _get_valid_token triggers no refresh call, nor with expiresAt 2 hours in the
\* future; it triggers one when expiresAt is at most 60 minutes in the future
\* and the record stores a refresh token.
C9_NoRefreshAt90Minutes ==
    \A p \in Procs :
        (Started(p) /\ HasExpiry(p) /\ HasUsableRefreshToken(p))
            => /\ Remaining(p) = 90 => ~tokenFrame[p].called
               /\ Remaining(p) = 120 => ~tokenFrame[p].called
               /\ Remaining(p) <= SkewMinutes => tokenFrame[p].called

\* C9 witness: a call that read expiresAt 90 minutes ahead, with a refresh
\* token stored, has returned the stored access token without a refresh call.
C9_Witness ==
    \E p \in Procs :
        /\ tokenFrame[p].pc = "done"
        /\ HasExpiry(p) /\ HasUsableRefreshToken(p)
        /\ Remaining(p) = 90
        /\ ~tokenFrame[p].called
        /\ tokenFrame[p].outcome = "returned"
        /\ tokenFrame[p].token = decrypt_token(tokenFrame[p].seen.access_token)

\* C10: _get_valid_token calls the refresh endpoint only when
\* now + 60 minutes >= expiresAt and a refresh token is stored; a record with no
\* expiry, with no refresh token or with its expiry further than the skew
\* away gets its stored access token back without any refresh call.
C10_RefreshGuard ==
    \A p \in Procs :
        Started(p) =>
            /\ tokenFrame[p].called =>
                  /\ HasExpiry(p)
                  /\ tokenFrame[p].seen.now_utc + 60 >= tokenFrame[p].seen.token_expires_at
                  /\ tokenFrame[p].seen.refresh_token # NoToken
            /\ ( \/ ~HasExpiry(p)
                 \/ tokenFrame[p].seen.refresh_token = NoToken
                 \/ tokenFrame[p].seen.token_expires_at > tokenFrame[p].seen.now_utc + 60 )
                  => /\ ~tokenFrame[p].called
                     /\ tokenFrame[p].pc = "done"
                     /\ CanDecrypt(tokenFrame[p].seen.access_token)
                           => /\ tokenFrame[p].outcome = "returned"
                              /\ tokenFrame[p].token
                                    = decrypt_token(tokenFrame[p].seen.access_token)

\* C10 witness: one call has made a refresh call at exactly 60 minutes before
\* expiry, another has returned the stored token 61 minutes before expiry.
C10_Witness ==
    \E p \in Procs, q \in Procs :
        /\ tokenFrame[p].called
        /\ HasExpiry(p) /\ Remaining(p) = 60
        /\ tokenFrame[q].pc = "done"
        /\ ~tokenFrame[q].called
        /\ HasExpiry(q) /\ Remaining(q) = 61
        /\ tokenFrame[q].seen.refresh_token # NoToken
        /\ tokenFrame[q].outcome = "returned"
        /\ tokenFrame[q].token = AccessToken(0)

\* a call whose refresh request failed
RefreshFailed(p) ==
    tokenFrame[p].pc = "done" /\ tokenFrame[p].response = "error"

\* C11: when the refresh call fails, _get_valid_token does not raise; it
\* returns the access token the record stored when the call read it, and the
\* failure leaves the stored access token, refresh token and expiry unchanged.
C11_SoftRefreshFailure ==
    /\ [](\A p \in Procs :
            RefreshFailed(p) =>
                /\ tokenFrame[p].outcome = "returned"
                /\ tokenFrame[p].token = decrypt_token(tokenFrame[p].seen.access_token))
    /\ [][\A p \in Procs :
            (tokenFrame[p].pc = "awaiting" /\ tokenFrame'[p].response = "error")
                => integration' = integration]_vars

\* C11 witness: a refresh request made after the token expired has failed and
\* the expired access token of the untouched record was returned.
C11_Witness ==
    \E p \in Procs :
        /\ RefreshFailed(p)
        /\ tokenFrame[p].seen.now_utc > tokenFrame[p].seen.token_expires_at
        /\ tokenFrame[p].outcome = "returned"
        /\ tokenFrame[p].token = AccessToken(0)
        /\ integration = Connected

----------------------------------------------------------------------------
(* Properties of the OAuth flow                                             *)

\* C12: a failure to decrypt a stored access token, refresh token or PKCE
\* verifier is never propagated as an exception by _get_valid_token,
\* _process_callback or get_linear_status; each treats the credential as absent:
\* no _get_valid_token call ends raised, a callback whose stored verifier does
\* not decrypt goes on to the exchange without a verifier, and
\* get_linear_status returns.
C12_DecryptFailureNeverRaised ==
    /\ \A p \in Procs :
          tokenFrame[p].pc = "done" => tokenFrame[p].outcome = "returned"
    /\ \A p \in Procs :
          authFrame[p].verifier_undecryptable
              => /\ authFrame[p].pc \in {"exchange", "lookup"}
                 /\ authFrame[p].code_verifier = None
    /\ \A p \in Procs :
          (authFrame[p].pc = "done" /\ authFrame[p].op = "status")
              => /\ authFrame[p].outcome = "returned"
                 /\ authFrame[p].result.token_preview # NoToken
                       => authFrame[p].result.connected


\* the refresh token this call sent is no longer the one the row holds:
\* another request has rotated it since
RotationConflict(p) ==
    /\ tokenFrame[p].pc = "awaiting"
    /\ integration.refresh_token # encrypt_token(tokenFrame[p].refresh_token)

\* C13: a refresh that fails because a racing request has already rotated the
\* refresh token is retried, once, with the refresh token the row holds now,
\* before the failure ends the call.
C13_RotationConflictRetried ==
    [][\A p \in Procs :
          (RotationConflict(p) /\ tokenFrame'[p].response = "error")
              => /\ tokenFrame'[p].pc = "awaiting"
                 /\ tokenFrame'[p].refresh_token =
                        decrypt_token(integration.refresh_token)]_vars



\* the row the callback loaded is connected: its workspace is not "pending"
LoadedConnected(fr) ==
    fr.integration # {} /\ \A i \in fr.integration : i.workspace_id # Pending

\* C14: when the provider rejects the code of a callback as invalid, nothing is
\* exchanged or stored and the rows keep their tokens, expiry and workspace;
\* the callback reports success (reuse) if the row it loaded has a workspace
\* other than "pending", and raises HTTP 400 if there is no row or a pending one.
C14_IdempotentCallback ==
    [][\A p \in Procs :
          (authFrame[p].pc = "exchange" /\ authFrame'[p].response = "invalid_grant")
              => /\ linearIntegrations' = linearIntegrations
                 /\ workspaceMappings' = workspaceMappings
                 /\ exchanged' = exchanged
                 /\ grants' = grants
                 /\ authFrame'[p].pc = "done"
                 /\ IF LoadedConnected(authFrame[p])
                    THEN /\ authFrame'[p].outcome = "returned"
                         /\ authFrame'[p].result.redirect_url = Redirect(TRUE)
                    ELSE /\ authFrame'[p].outcome = "raised"
                         /\ authFrame'[p].status_code = 400]_vars

\* a duplicate callback has reported success for a connected row
C14_Witness ==
    \E p \in Procs :
        /\ authFrame[p].pc = "done"
        /\ authFrame[p].op = "callback"
        /\ authFrame[p].response = "invalid_grant"
        /\ authFrame[p].result.redirect_url = Redirect(TRUE)
        /\ \E i \in linearIntegrations :
              /\ i.user_id = authFrame[p].user_id
              /\ i.workspace_id = WorkspaceId
              /\ i.access_token # NoToken



\* after a callback whose exchange succeeded has committed, no row of the user
\* holds a PKCE verifier
VerifierClearedOnCommit ==
    [][\A p \in Procs :
          (authFrame[p].pc = "lookup" /\ authFrame'[p].outcome = "returned")
              => \A i \in linearIntegrations' :
                    i.user_id = authFrame[p].user_id
                        => i.pkce_code_verifier = NoToken]_vars

\* no verifier has been accepted by the provider in two exchanges
VerifierUsedOnce ==
    \A e1, e2 \in exchanged :
        (e1.code_verifier # None /\ e1.code_verifier = e2.code_verifier) => e1 = e2

\* C15: the PKCE verifier is ephemeral and write-once: after a callback whose
\* exchange succeeded has committed, the user's row holds no verifier, and a
\* stored verifier is used by at most one successful exchange.
C15_VerifierWriteOnce == VerifierClearedOnCommit /\ []VerifierUsedOnce



----------------------------------------------------------------------------
(* Properties of the authorization URL                                      *)

\* the values the query string of a URL gives for a parameter
QueryValues(url, name) ==
    {url.query[k][2] : k \in {j \in DOMAIN url.query : url.query[j][1] = name}}

\* C16: the authorization URL carries neither code_challenge nor
\* code_challenge_method when no challenge is supplied, and carries the
\* challenge, code_challenge_method=S256 and response_type=code when one is.
C16_AuthorizationUrlPkce ==
    authUrl.called =>
        IF authUrl.code_challenge \in {None, ""}
        THEN /\ QueryValues(authUrl.url, "code_challenge") = {}
             /\ QueryValues(authUrl.url, "code_challenge_method") = {}
        ELSE /\ QueryValues(authUrl.url, "code_challenge") = {authUrl.code_challenge}
             /\ QueryValues(authUrl.url, "code_challenge_method") = {"S256"}
             /\ QueryValues(authUrl.url, "response_type") = {"code"}

\* a URL has been built with a challenge, and it has the seven parameters
C16_Witness ==
    /\ authUrl.called
    /\ authUrl.code_challenge = "test-challenge"
    /\ authUrl.state = "test-state"
    /\ Len(authUrl.url.query) = 7
    /\ QueryValues(authUrl.url, "code_challenge_method") = {"S256"}



----------------------------------------------------------------------------
(* Properties of the matcher                                                *)

\* candidate k carries an email equal to the team email but for case
EmailEquals(k) ==
    /\ matched.linear_users[k].email.kind = "str"
    /\ lower(matched.linear_users[k].email.str) = lower(matched.team)

\* the call has no exact email pass, or the pass finds nothing
NoEmailMatch ==
    matched.op = "name" \/ \A k \in DOMAIN matched.linear_users : ~EmailEquals(k)

\* candidate k has an id and a name
Eligible(k) ==
    Truthy(matched.linear_users[k].id) /\ Truthy(matched.linear_users[k].name)

\* the name token of the call and the name of candidate k as they are compared
TargetName ==
    IF matched.op = "email" THEN lower(split(matched.team, "@")[1])
    ELSE strip(lower(matched.team))
CandidateName(k) ==
    IF matched.op = "email" THEN lower(matched.linear_users[k].name.str)
    ELSE strip(lower(matched.linear_users[k].name.str))
TargetParts ==
    IF matched.op = "email" THEN split(TargetName, ".") ELSE split_whitespace(TargetName)
CandidateParts(k) == split_whitespace(CandidateName(k))

\* the largest of a set of scores
MaxOf(scores) == CHOOSE x \in scores : \A y \in scores : Leq(y, x)

\* C17: if some candidate's email equals the team email case-insensitively,
\* match_email_to_linear returns the first such candidate of the list with
\* confidence 1.0, whatever the names of the other candidates.
C17_ExactEmailPass ==
    (matched.called /\ matched.op = "email") =>
        \A k \in DOMAIN matched.linear_users :
            (EmailEquals(k) /\ \A j \in 1..(k - 1) : ~EmailEquals(j))
                => /\ matched.outcome = "returned"
                   /\ matched.match.index = k
                   /\ matched.match.user_id = Get(matched.linear_users[k].id)
                   /\ matched.match.name = Get(matched.linear_users[k].name)
                   /\ matched.match.score = One

\* the second candidate is returned for its email, written in another case,
\* although the name of the first one is the team's name token itself
C17_Witness ==
    /\ matched.called
    /\ matched.op = "email"
    /\ Len(matched.linear_users) = 2
    /\ matched.match.index = 2
    /\ matched.match.score = One
    /\ matched.linear_users[2].email.str # matched.team
    /\ Eligible(1)
    /\ ratio(TargetName, CandidateName(1)) = One

\* candidate k has a score that reaches the threshold
Qualifies(k) == Eligible(k) /\ Leq(ConfidenceThreshold, matched.scores[k])

\* the match returned is the first of the qualifying candidates with the
\* highest score, and None if no candidate qualifies
FuzzySelected ==
    LET qualifying == {k \in DOMAIN matched.linear_users : Qualifies(k)}
    IN  IF qualifying = {} THEN matched.match = NoMatch
        ELSE /\ matched.match.index \in qualifying
             /\ matched.match.score = matched.scores[matched.match.index]
             /\ matched.match.user_id =
                    matched.linear_users[matched.match.index].id
             /\ \A j \in qualifying :
                    /\ Leq(matched.scores[j], matched.match.score)
                    /\ matched.scores[j] = matched.match.score
                           => matched.match.index <= j

\* C18: without an exact email match the matcher returns the candidate with
\* the highest score among those scoring at least 0.70, the earliest of the
\* list on ties, and None when no candidate reaches 0.70.
C18_FuzzySelection ==
    (matched.called /\ NoEmailMatch) =>
        (matched.outcome = "returned" /\ FuzzySelected)

\* the ratios of the first parts and of the last parts of the team's name
\* token and of candidate k's name
FirstRatio(k) == ratio(TargetParts[1], CandidateParts(k)[1])
LastRatio(k) ==
    ratio(TargetParts[Len(TargetParts)], CandidateParts(k)[Len(CandidateParts(k))])
HasFirst(k) == TargetParts[1] # <<>> /\ Len(CandidateParts(k)) >= 1
HasLast(k) ==
    /\ Len(TargetParts) >= 2 /\ Len(CandidateParts(k)) >= 2
    /\ TargetParts[Len(TargetParts)] # <<>>

\* C19 as stated: the score of a candidate is the largest of the whole-string
\* ratio, 0.85 times the first-name ratio and 0.85 times the last-name ratio.
C19_DampenedComponents ==
    (matched.called /\ matched.outcome = "returned" /\ matched.pass = "name") =>
        \A k \in DOMAIN matched.linear_users :
            Eligible(k) =>
                matched.scores[k] =
                    MaxOf({ratio(TargetName, CandidateName(k))}
                          \cup (IF HasFirst(k)
                                THEN {Times(FirstRatio(k), FirstNameFactor)} ELSE {})
                          \cup (IF HasLast(k)
                                THEN {Times(LastRatio(k), FirstNameFactor)} ELSE {}))

\* C19: in match_email_to_linear the score of a candidate is the largest of
\* the whole-string ratio, 0.85 times the first-part ratio, and 0.75 when the
\* last-part ratio exceeds 0.85; in match_name_to_linear it is the larger of
\* the whole-string ratio and 0.80 when the first and the last word of the
\* team name both occur in the candidate's name.  A score above 0.85 is a
\* whole-string ratio, and a whole-string ratio of 1.0 gives the score 1.0.
C19_ScoreFormula ==
    (matched.called /\ matched.outcome = "returned" /\ matched.pass = "name") =>
        \A k \in DOMAIN matched.linear_users :
            Eligible(k) =>
                LET whole == ratio(TargetName, CandidateName(k))
                    parts ==
                        IF matched.op = "email"
                        THEN (IF HasFirst(k)
                              THEN {Times(FirstRatio(k), FirstNameFactor)} ELSE {})
                             \cup (IF HasLast(k) /\ Less(LastNameBound, LastRatio(k))
                                   THEN {LastNameScore} ELSE {})
                        ELSE IF /\ Len(TargetParts) >= 2
                                /\ Len(CandidateParts(k)) >= 2
                                /\ Contains(TargetParts[1], CandidateName(k))
                                /\ Contains(TargetParts[Len(TargetParts)],
                                            CandidateName(k))
                             THEN {BothPartsScore} ELSE {}
                IN  /\ matched.scores[k] = MaxOf({whole} \cup parts)
                    /\ Leq(matched.scores[k], One)
                    /\ Less(FirstNameFactor, matched.scores[k])
                           => matched.scores[k] = whole
                    /\ whole = One => matched.scores[k] = One

\* a candidate is returned with the score 0.75 for its last name, its
\* whole-string ratio and its first-name ratio being lower
C19_Witness ==
    /\ matched.called
    /\ matched.op = "email"
    /\ matched.pass = "name"
    /\ matched.match.index = 1
    /\ matched.match.score = LastNameScore
    /\ Less(ratio(TargetName, CandidateName(1)), ConfidenceThreshold)
    /\ LastRatio(1) = One

\* C20: the matchers never raise, and a match they return carries an id.
C20_NeverRaises ==
    matched.called =>
        /\ matched.outcome = "returned"
        /\ matched.match.index # 0 => Truthy(matched.match.user_id)



----------------------------------------------------------------------------
(* Properties of the pagination loops                                       *)

\* the loop has ended at its ceiling while the provider reported a next page
Truncated ==
    /\ pager.pc = "done"
    /\ pager.outcome = "returned"
    /\ pager.pages = pager.max_pages
    /\ pager.has_next

\* C21: a pagination loop sends at most 10 requests for issues and 20 for
\* users, each for at most 100 nodes; it requests another page only after a
\* page that reports hasNextPage and ends at the first page that does not;
\* and it ends whatever the provider answers.
C21_BoundedPagination ==
    /\ [](pager.pc # "idle" =>
            /\ pager.pages <= (IF pager.endpoint = "test" THEN 10 ELSE 20)
            /\ pager.first <= 100)
    /\ [][pager.pc = "fetching" =>
            /\ pager'.pc = "fetching"
                  => pager'.has_next /\ pager'.pages = pager.pages + 1
            /\ (pager'.outcome = "returned" /\ ~pager'.has_next)
                  => pager'.pc = "done" /\ pager'.pages = pager.pages]_vars
    /\ (pager.pc = "fetching") ~> (pager.pc = "done")

\* the loop over users has ended at its twentieth page against a provider
\* that reported hasNextPage on every page
C21_Witness ==
    /\ Truncated
    /\ pager.endpoint = "sync-users"
    /\ pager.pages = 20
    /\ pager.first = 100

\* C22: the result of a loop that ended at its ceiling while the provider
\* still reported a next page differs from the result of a complete
\* aggregation of the same nodes: it carries a partial-result flag.
C22_TruncationReported ==
    Truncated => pager.result # PageResult(pager.endpoint, pager.all)

\* ---------------------------------------------------------------------------
\* Properties of the contribution score and of the headroom combination
\* ---------------------------------------------------------------------------

Contributed == scoring.called /\ scoring.op = "contribution"
Combined == scoring.called /\ scoring.op = "headroom"

\* the same mix of priorities with twice the records
Doubled(counts) == [p \in Priorities |-> 2 * counts[p]]
\* none, low, medium, high, urgent: the priorities by increasing weight
ByWeight == <<0, 4, 3, 2, 1>>
\* one issue of the i-th priority moved to the next higher one
OneRaised(counts, i) ==
    [counts EXCEPT ![ByWeight[i]] = @ - 1, ![ByWeight[i + 1]] = @ + 1]

\* C23: a set of issues with the same priorities and more records, or with
\* the same number of records and higher priority weights, never has a lower
\* contribution score than the set it is compared with.
C23_ContributionMonotone ==
    (Contributed /\ ~scoring.absent) =>
        /\ \A r \in calculate_linear_ocb_contribution(FALSE, Doubled(scoring.counts)) :
               Leq(scoring.result, r)
        /\ \A i \in 1..4 :
               scoring.counts[ByWeight[i]] > 0 =>
                   \A r \in calculate_linear_ocb_contribution(
                                FALSE, OneRaised(scoring.counts, i)) :
                       Leq(scoring.result, r)

\* the score of the formula, before rounding
FormulaScore(counts) ==
    LET count == issue_count(counts)
        avgWeight == Rational(weighted_sum(counts)[1], weighted_sum(counts)[2] * count)
        loadScore == Minimum(Rational(count, 15), One)
        priorityScore == Minimum(Rational(5 * avgWeight[1], 6 * avgWeight[2]), One)
        sum == Plus(Plus(Times(<<2, 5>>, loadScore), Times(<<7, 20>>, priorityScore)),
                    Times(<<1, 4>>, DefaultDeadlineScore))
    IN  Maximum(Zero, Minimum(<<100, 1>>, Times(sum, <<75, 1>>)))

\* C24: the contribution score is the tenth nearest to
\* clamp((0.4 * loadScore + 0.35 * priorityScore + 0.25 * deadlineScore) * 100
\* * 0.75, 0, 100), with loadScore = min(count / 15, 1) and priorityScore =
\* min(avgWeight / 1.2, 1); it lies in [0, 100], and it is 0 for an empty or
\* absent set of issues.
C24_ContributionBounds ==
    Contributed =>
        /\ Leq(Zero, scoring.result)
        /\ Leq(scoring.result, <<100, 1>>)
        /\ IF scoring.absent \/ scoring.counts = NoIssues
           THEN scoring.result = Zero
           ELSE /\ Leq(scoring.result, Plus(FormulaScore(scoring.counts), <<1, 20>>))
                /\ Leq(FormulaScore(scoring.counts), Plus(scoring.result, <<1, 20>>))

\* eighteen issues, three of each priority: the load is full and the score 50.9
C24_Witness ==
    /\ Contributed
    /\ scoring.counts = [p \in Priorities |-> 3]
    /\ scoring.result = <<509, 10>>

\* C25: the final score is base + (100 - base) * contribution / 100; it is at
\* least the base, at most 100, and no larger contribution gives a smaller
\* final score.
C25_Headroom ==
    Combined =>
        LET base == scoring.original_ocb
            contribution == scoring.linear_ocb
        IN  /\ Times(<<100, 1>>, scoring.result)
                   = Plus(Times(<<100, 1>>, base),
                          Times(Rational(100 * base[2] - base[1], base[2]),
                                contribution))
            /\ Leq(base, scoring.result)
            /\ Leq(scoring.result, <<100, 1>>)
            /\ \A c \in ScoreTenths :
                   Leq(contribution, Rational(c, 10)) =>
                       Leq(scoring.result, headroom(base, Rational(c, 10)))

\* a base of 90 and a contribution of 50 give 95
C25_Witness ==
    /\ Combined
    /\ scoring.original_ocb = <<90, 1>>
    /\ scoring.linear_ocb = <<50, 1>>
    /\ scoring.result = <<95, 1>>

\* C26: a contribution of 0 leaves the base unchanged, a contribution of 100
\* gives 100, and a base of 50 with a contribution of 30 gives 65.
C26_HeadroomBoundaries ==
    Combined =>
        /\ scoring.linear_ocb = Zero => scoring.result = scoring.original_ocb
        /\ scoring.linear_ocb = <<100, 1>> => scoring.result = <<100, 1>>
        /\ (scoring.original_ocb = <<50, 1>> /\ scoring.linear_ocb = <<30, 1>>)
               => scoring.result = <<65, 1>>

C26_Witness ==
    /\ Combined
    /\ scoring.original_ocb = <<50, 1>>
    /\ scoring.linear_ocb = <<30, 1>>
    /\ scoring.result = <<65, 1>>

\* ---------------------------------------------------------------------------
\* Properties of the day-scoped cache
\* ---------------------------------------------------------------------------

\* the first instant of the day after an instant
NextMidnight(now) == (today(now) + 1) * DayTicks

\* a read returns a value only on the day the value was stored
HitOnDayOfWrite ==
    (cacheRead.op = "get" /\ cacheRead.pc = "done" /\ cacheRead.hit) =>
        today(cacheRead.cached_at) = today(cacheRead.now)

\* every stored entry expires at the midnight that follows its write
ExpiresAtMidnight ==
    \A e \in redis : e.expires_at = NextMidnight(e.cached_at)

\* C27: a value stored by set_cached_oncall_emails on a UTC day is returned
\* by get_cached_oncall_emails only during that day, every read on a later
\* day is a miss, and the stored entry expires at the next UTC midnight after
\* the write.
C27_DayScopedCache == HitOnDayOfWrite /\ ExpiresAtMidnight

\* ---------------------------------------------------------------------------
\* Properties of the lifecycle of the mappings
\* ---------------------------------------------------------------------------

\* C28: when remove_linear_mapping completes, no mapping of the owner for the
\* source identifier with target platform linear remains, and the correlation
\* of the owner and the identifier, which create_mapping paired with the
\* mapping, carries no Linear id; both changes are one commit.
C28_UnmapClearsBoth ==
    [][\A p \in Procs :
          (RemoveLinearMapping(p, frame'[p].source_identifier, FALSE)
             /\ frame'[p].status = "removed") =>
              /\ \A m \in userMappings' :
                     ~ /\ m.user_id = CurrentUser(p)
                       /\ m.source_identifier = frame'[p].source_identifier
                       /\ m.target_platform = "linear"
              /\ \A c \in userCorrelations' :
                     (c.user_id = CurrentUser(p)
                        /\ c.email = frame'[p].source_identifier)
                         => c.linear_user_id = None]_vars

\* C29: when disconnect_linear returns, the integration of the user is gone
\* and no mapping of the user with target platform linear remains.
C29_DisconnectDeletesMappings ==
    [][\A p \in Procs :
          (DisconnectAccount(p) /\ authFrame'[p].outcome = "returned") =>
              /\ {i \in linearIntegrations' : i.user_id = CurrentUser(p)} = {}
              /\ {m \in userMappings' \cup integrationMappings' :
                     m.user_id = CurrentUser(p) /\ m.target_platform = "linear"} = {}]_vars

\* the call of auto_map_users for a team member has ended at this step
AutoMapEnds(p) ==
    /\ frame'[p] # frame[p]
    /\ frame'[p].target_platform = "linear"
    /\ frame'[p].status \in {"returned", "not_found"}

\* C30: when auto_map_users has processed a source identifier that had no
\* record, a record of (owner, source identifier, linear) exists, successful
\* if a match was found and failed if none was, and the freshness lookup of
\* the key finds a record.
C30_RecordOnFirstAttempt ==
    [][\A p \in Procs :
          AutoMapEnds(p) =>
              LET user_id == frame'[p].user_id
                  email == frame'[p].source_identifier
                  found == frame'[p].status = "returned"
              IN  /\ \/ /\ found
                        /\ \E m \in userMappings' :
                               /\ m.user_id = user_id
                               /\ m.source_identifier = email
                               /\ m.target_platform = "linear"
                     \/ \E m \in integrationMappings' :
                            /\ m.user_id = user_id
                            /\ m.source_identifier = email
                            /\ m.target_platform = "linear"
                            /\ m.mapping_successful = found
                  /\ {m \in integrationMappings' :
                         /\ m.user_id = user_id
                         /\ m.source_identifier = email
                         /\ m.target_platform = "linear"} # {}]_vars

\* C37: after any sequence of create_mapping calls no two mappings of one
\* owner with different source identifiers hold the same target platform and
\* target identifier.
C37_OwnerTargetsDistinct ==
    \A m1 \in userMappings, m2 \in userMappings :
        /\ m1.user_id = m2.user_id
        /\ m1.target_platform = m2.target_platform
        /\ m1.target_identifier = m2.target_identifier
        => m1.source_identifier = m2.source_identifier

\* C38: every request after the first of a loop carries the endCursor of the
\* page before it, so that the first page is not requested again, also when
\* the provider reports hasNextPage without an endCursor.
C38_CursorProgress ==
    (pager.pc = "fetching" /\ pager.pages > 1) => pager.after # None

\* C40: the time to live that set_cached_oncall_emails computes lies between
\* 1 and the seconds of a day, and the call that reached Redis returns True.
C40_PositiveTtl ==
    [][(cacheRead.pc = "keyed" /\ cacheRead'.pc = "done") =>
          /\ get_seconds_until_midnight(cacheNow) \in 1..DaySeconds
          /\ cacheRead'.ok]_vars

\* C33: a callback's code is exchanged, and its tokens are stored, only if
\* the state the callback carries is a state that connect_linear returned;
\* a callback with a missing or another state gets no exchange.
C33_StateChecked ==
    [][\A p \in Procs :
          (authFrame[p].pc = "exchange" /\ authFrame'[p].pc = "lookup") =>
              authFrame[p].state \in {StateToken(n) : n \in 1..pkceIssued}]_vars

\* C36: the code_verifier a callback sends with a code is the verifier of the
\* connect_linear call whose code_challenge the code was issued for, also
\* when connect_linear ran twice before either flow was completed.
C36_VerifierBinding ==
    [][\A p \in Procs :
          (authFrame[p].pc # "exchange" /\ authFrame'[p].pc = "exchange") =>
              LET fr == authFrame'[p]
              IN  (/\ grants[fr.code].status = "issued"
                   /\ grants[fr.code].challenge # None
                   /\ fr.code_verifier # None)
                  => Challenge(fr.code_verifier) = grants[fr.code].challenge]_vars

\* a handler of the given kind ends for p
AuthEnds(p, op) ==
    /\ authFrame'[p] # authFrame[p]
    /\ authFrame'[p].pc = "done"
    /\ authFrame'[p].op = op

\* C39: a row whose workspace is not "pending" holds an encrypted access
\* token; get_linear_status reports a user whose row is pending as not
\* connected; and an endpoint hands a row to _get_valid_token only if the
\* user has a row that is not pending.
C39_PendingNeverUsed ==
    [][/\ \A i \in linearIntegrations' :
             i.workspace_id # Pending => i.access_token # NoToken
       /\ \A p \in Procs :
             /\ (/\ AuthEnds(p, "status")
                 /\ \A i \in IntegrationsOf(authFrame'[p].user_id) :
                       i.workspace_id = Pending)
                => ~authFrame'[p].result.connected
             /\ (AuthEnds(p, "teams") /\ authFrame'[p].response = "token")
                => \E i \in IntegrationsOf(authFrame'[p].user_id) :
                      i.workspace_id # Pending]_vars

\* a pending row exists while the status is asked and while an endpoint that
\* needs a token is called
C39_Witness ==
    /\ \E i \in linearIntegrations : i.workspace_id = Pending
    /\ \E p \in Procs :
          /\ authFrame[p].pc = "done" /\ authFrame[p].op = "status"
          /\ ~authFrame[p].result.connected
    /\ \E p \in Procs :
          /\ authFrame[p].pc = "done" /\ authFrame[p].op = "teams"
          /\ authFrame[p].outcome = "raised"

\* a step of a callback of p that does not end it with success
CallbackUnfinished(p) ==
    /\ authFrame'[p] # authFrame[p]
    /\ authFrame'[p].op = "callback"
    /\ authFrame'[p].outcome # "returned"

\* C35: a step of _process_callback that does not complete the callback (the
\* exchange is rejected or fails, no access token, the organization lookup
\* fails, no workspace id, the commit raises) leaves the integration rows, the
\* workspace mappings and the user correlations as they were; a pending row
\* keeps its verifier.
C35_FailureAtomicity ==
    [][\A p \in Procs :
          CallbackUnfinished(p) =>
              /\ linearIntegrations' = linearIntegrations
              /\ workspaceMappings' = workspaceMappings
              /\ userCorrelations' = userCorrelations]_vars

\* a callback has failed while the user's row is pending with its verifier
C35_Witness ==
    /\ \E p \in Procs :
          /\ authFrame[p].pc = "done" /\ authFrame[p].op = "callback"
          /\ authFrame[p].outcome = "raised"
          /\ authFrame[p].response = "tokens"
    /\ \E i \in linearIntegrations :
          i.workspace_id = Pending /\ i.pkce_code_verifier # NoToken

\* both requests read the same refresh token and sent it
BothSentTheSame ==
    /\ \A p \in Procs : tokenFrame[p].called
    /\ \A p1 \in Procs, p2 \in Procs :
          tokenFrame[p1].refresh_token = tokenFrame[p2].refresh_token

\* C32: against a provider that rotates refresh tokens, once no refresh
\* request is awaiting its answer the row holds the refresh token the provider
\* issued last, which the provider accepts for the next refresh; this holds
\* also after two requests that both sent the same refresh token.
C32_LatestRefreshTokenWins ==
    ((\E p \in Procs : tokenFrame[p].called)
        /\ (\A p \in Procs : tokenFrame[p].pc # "awaiting"))
    => /\ CanDecrypt(integration.refresh_token)
       /\ decrypt_token(integration.refresh_token) = provider

\* two requests have sent the same refresh token, one was answered with a new
\* token set and the other rejected
C32_Witness ==
    /\ BothSentTheSame
    /\ \A p \in Procs : tokenFrame[p].pc = "done"
    /\ \E p \in Procs : tokenFrame[p].response = "tokens"
    /\ \E p \in Procs : tokenFrame[p].response = "error"
    /\ provider # RefreshToken(0)

\* the sum of the values of a function with a finite domain
RECURSIVE Total(_)
Total(f) ==
    IF DOMAIN f = {} THEN 0
    ELSE LET k == CHOOSE k \in DOMAIN f : TRUE
         IN  f[k] + Total([j \in DOMAIN f \ {k} |-> f[j]])

\* the number of fetched issues without assignee
Unassigned(all_issues) ==
    Cardinality({i \in DOMAIN all_issues :
                    all_issues[i].assignee_id \in {None, ""}})

LinearIdOwners(linear_user_id) ==
    {c.user_id : c \in {r \in userCorrelations : r.linear_user_id = linear_user_id}}

\* C31: after any sequence of create_mapping, sync_linear_users, OAuth
\* callbacks and remove_linear_mapping, the user_correlations rows that carry
\* a given Linear user id belong to at most one owner.
C31_OneOwnerPerLinearId ==
    (/\ \A p \in Procs : frame[p].pc = "idle"
     /\ \A p \in Procs : authFrame[p].pc \in {"idle", "done"})
    => \A linear_user_id \in TargetIds :
          Cardinality(LinearIdOwners(linear_user_id)) <= 1

====
